---- MODULE Spec2Model ----
(***************************************************************************)
(* Transaction processing simulator: the lifecycle manager                 *)
(* (TransactionService), and the rule engine (RulesEngine) it consults.    *)
(*                                                                         *)
(* Conventions of the model                                                *)
(*  - Amounts are JavaScript numbers; the model counts them in thousandths *)
(*    (0.001 is 1, 0.01 is 10, 100 is 100000, 10000 is 10000000).          *)
(*  - Dates (createdAt, updatedAt, timestamp, evaluatedAt) are not         *)
(*    modelled; completedAt is modelled as stamped / not stamped.          *)
(*  - uuidv4() yields the next unused identifier.                          *)
(*  - An async method runs synchronously up to its first await; every      *)
(*    await is a suspension point at which other calls may run.  A call in *)
(*    flight occupies a slot of `calls`; its position is `pc`.             *)
(*  - An optional property that is absent is a record without that field.  *)
(*  - Error messages are sequences of strings (template parts).            *)
(***************************************************************************)
EXTENDS Integers, Sequences, FiniteSets, TLC

\* ------------------------------------------------------------------------
\* Bounds of the model
\* ------------------------------------------------------------------------

\* transactions that may be created (identifiers 1..MaxTx)
MaxTx == 1

\* process / retry calls that may be in flight at the same time
MaxCalls == 2

\* status transitions recorded in all histories together; a call that may
\* record transitions starts only if there is room for all it may record
MaxTransitions == 8

\* the same, where the callers use only create, process, retry, cancel and refund
MaxApiTransitions == 12

\* direct updateStatus calls that go through (the method is public)
MaxDirect == 1

\* transactions that may be created where only createTransaction is called
MaxCreated == 2

\* calls that change the rules or the configuration of the rule engine
MaxRuleCalls == 3

\* batch calls
MaxBatchCalls == 2

\* triggerEvent calls made from outside
MaxTriggers == 1

\* updateWebhook and deleteWebhook calls
MaxHookCalls == 1

Ids == 1..MaxTx

Slots == 1..MaxCalls

\* ------------------------------------------------------------------------
\* models/Transaction.ts, models/Error.ts
\* ------------------------------------------------------------------------

TransactionStatus ==
  {"PENDING", "VALIDATING", "PROCESSING", "COMPLETED", "FAILED", "CANCELLED", "REFUNDED"}

TransactionPriority == {"LOW", "NORMAL", "HIGH", "URGENT"}

\* the table with PROCESSING -> CANCELLED let through
VALID_STATUS_TRANSITIONS_Lax ==
  [s \in TransactionStatus |->
     CASE s = "PENDING"    -> {"VALIDATING", "CANCELLED"}
       [] s = "VALIDATING" -> {"PROCESSING", "FAILED", "CANCELLED"}
       [] s = "PROCESSING" -> {"COMPLETED", "FAILED", "CANCELLED"}
       [] s = "COMPLETED"  -> {"REFUNDED"}
       [] s = "FAILED"     -> {"PENDING"}
       [] s = "CANCELLED"  -> {}
       [] s = "REFUNDED"   -> {}]

VALID_STATUS_TRANSITIONS ==
  [s \in TransactionStatus |->
     CASE s = "PENDING"    -> {"VALIDATING", "CANCELLED"}
       [] s = "VALIDATING" -> {"PROCESSING", "FAILED", "CANCELLED"}
       [] s = "PROCESSING" -> {"COMPLETED", "FAILED"}
       [] s = "COMPLETED"  -> {"REFUNDED"}
       [] s = "FAILED"     -> {"PENDING"}
       [] s = "CANCELLED"  -> {}
       [] s = "REFUNDED"   -> {}]

ERROR_CODES ==
  [INVALID_AMOUNT |-> "E1001", INVALID_CURRENCY |-> "E1002", INVALID_ACCOUNT |-> "E1003",
   PROCESSING_FAILED |-> "E2005", RULE_VIOLATION |-> "E3001",
   INVALID_STATUS_TRANSITION |-> "E4001", TRANSACTION_NOT_FOUND |-> "E4002"]

\* processing simulation delays (ms)
PROCESSING_DELAYS ==
  [p \in TransactionPriority |->
     CASE p = "URGENT" -> 500
       [] p = "HIGH"   -> 1000
       [] p = "NORMAL" -> 2000
       [] p = "LOW"    -> 3000]

\* the value of an absent string property (errorCode, errorMessage, ...)
Undefined == "undefined"

\* no error: the call returned normally
NoError == <<>>

VARIABLES
  transactions,   \* TransactionService.ts: Map id -> Transaction
  statusHistory,  \* TransactionService.ts: Map id -> StatusTransition[]
  calls,          \* slot -> the process / retry call in flight in it
  lastResult,     \* what the call that just settled returned or threw, until its caller takes it
  rules,          \* RulesEngine: Map id -> Rule, in insertion order
  config,         \* RulesEngine: RulesEngineConfig
  ruleUuids,      \* RulesEngine: the rule ids uuidv4() has handed out so far
  ruleCalls,      \* the calls made so far to the methods that change rules or config
  evalInput,      \* the transaction last handed to evaluateTransaction directly
  evalOutput,     \* and the verdict it got
  maxBatchSize,   \* BatchService: maxBatchSize
  batch,          \* the batch call in flight, or the last one with what it returned
  batchCalls,     \* the batch calls made so far
  webhooks,       \* WebhookService.ts: inMemoryWebhooks, Map id -> Webhook
  hookUuids,      \* the webhook ids uuidv4() has handed out so far
  hookCalls,      \* the updateWebhook and deleteWebhook calls made so far
  webhookLogs,    \* WebhookService.ts: inMemoryWebhookLogs, the logs under their ids
  deliveries,     \* the sendWebhook calls waiting for the HTTP response or for their timer
  triggered,      \* the triggerEvent calls made so far, in order
  posts,          \* the axios.post calls settled so far
  now,            \* the clock, in milliseconds: what new Date() reads
  createdAt       \* TransactionService.ts: id -> createdAt of the transaction

txVars == <<transactions, statusHistory, calls, lastResult>>

ruleVars == <<rules, config, ruleUuids, ruleCalls>>

evalVars == <<evalInput, evalOutput>>

batchVars == <<maxBatchSize, batch, batchCalls>>

hookVars == <<webhooks, hookUuids, hookCalls, webhookLogs, deliveries, triggered, posts>>

clockVars == <<now, createdAt>>

vars == <<transactions, statusHistory, calls, lastResult, rules, config,
          ruleUuids, ruleCalls, evalInput, evalOutput, maxBatchSize, batch,
          batchCalls, webhooks, hookUuids, hookCalls, webhookLogs, deliveries,
          triggered, posts, now, createdAt>>

\* ------------------------------------------------------------------------
\* models/Rule.ts
\* ------------------------------------------------------------------------

RuleAction == {"ALLOW", "DENY", "FLAG", "REQUIRE_APPROVAL"}

\* A condition value carries its JavaScript type: a number, a string, or an
\* array (of strings or of numbers).
NumberValue(n) == [kind |-> "number", v |-> n]

StringValue(s) == [kind |-> "string", v |-> s]

ArrayValue(elem, a) == [kind |-> "array", elem |-> elem, v |-> a]

\* the rule templates, in the order of the source; amounts in thousandths
DEFAULT_RULES ==
  << [name |-> "High Amount Threshold",
      description |-> "Flag transactions over $10,000",
      enabled |-> TRUE, priority |-> 1,
      condition |-> [type |-> "AMOUNT_THRESHOLD", operator |-> "GT",
                     value |-> NumberValue(10000000), field |-> "amount"],
      action |-> "FLAG", severity |-> "WARNING"],
     [name |-> "Very High Amount Block",
      description |-> "Block transactions over $100,000",
      enabled |-> TRUE, priority |-> 0,
      condition |-> [type |-> "AMOUNT_THRESHOLD", operator |-> "GT",
                     value |-> NumberValue(100000000), field |-> "amount"],
      action |-> "DENY", severity |-> "CRITICAL"],
     [name |-> "Minimum Amount",
      description |-> "Reject transactions below $0.01",
      enabled |-> TRUE, priority |-> 0,
      condition |-> [type |-> "AMOUNT_THRESHOLD", operator |-> "LT",
                     value |-> NumberValue(10), field |-> "amount"],
      action |-> "DENY", severity |-> "ERROR"],
     [name |-> "Supported Currencies",
      description |-> "Only allow USD, EUR, GBP currencies",
      enabled |-> TRUE, priority |-> 2,
      condition |-> [type |-> "CURRENCY", operator |-> "IN",
                     value |-> ArrayValue("string", <<"USD", "EUR", "GBP">>),
                     field |-> "currency"],
      action |-> "ALLOW", severity |-> "INFO"] >>

\* ------------------------------------------------------------------------
\* services/RulesEngine (the second half of src/src/services/BatchService.ts)
\* ------------------------------------------------------------------------

defaultConfig ==
  [stopOnFirstDeny |-> TRUE, logAllEvaluations |-> TRUE, defaultAction |-> "ALLOW"]

\* initializeDefaultRules: every template gets a fresh id (the ids after the
\* n handed out so far) and is inserted in order
initializeDefaultRules(n) ==
  [i \in 1..Len(DEFAULT_RULES) |->
     [id |-> n + i,
      name |-> DEFAULT_RULES[i].name,
      description |-> DEFAULT_RULES[i].description,
      enabled |-> DEFAULT_RULES[i].enabled,
      priority |-> DEFAULT_RULES[i].priority,
      condition |-> DEFAULT_RULES[i].condition,
      action |-> DEFAULT_RULES[i].action,
      severity |-> DEFAULT_RULES[i].severity]]

\* the fields of Transaction whose values are numbers (typeof v === 'number')
NumberFields == {"amount", "retryCount", "maxRetries"}

\* transaction[field], with its JavaScript type
FieldValue(transaction, field) ==
  IF field \notin DOMAIN transaction THEN [kind |-> "undefined"]
  ELSE IF field \in NumberFields THEN NumberValue(transaction[field])
  ELSE IF field = "errorMessage"
    THEN IF transaction[field] = <<>> THEN [kind |-> "undefined"]
         ELSE StringValue(transaction[field])
  ELSE IF field = "completedAt"
    THEN IF transaction[field] THEN [kind |-> "date"] ELSE [kind |-> "undefined"]
  ELSE IF transaction[field] = Undefined THEN [kind |-> "undefined"]
  ELSE StringValue(transaction[field])

\* a === b
StrictEquals(a, b) ==
  /\ a.kind = b.kind
  /\ a.kind \in {"number", "string"} => a.v = b.v
  /\ a.kind = "array" => FALSE

\* Array.isArray(value) && value.includes(fieldValue)
Includes(value, fieldValue) ==
  /\ value.kind = "array"
  /\ fieldValue.kind = value.elem
  /\ \E i \in 1..Len(value.v) : value.v[i] = fieldValue.v

\* new RegExp(value).test(fieldValue), for the patterns the model uses
RegExpTest(pattern, s) ==
  CASE pattern = "^ACC-" -> s \in {"ACC-001", "ACC-002"}
    [] OTHER             -> FALSE

\* Number(s) for the strings the model uses: <<n>>, or <<>> for NaN
StringToNumber(s) ==
  CASE s = ""  -> <<0>>
    [] s = "0" -> <<0>>
    [] OTHER   -> <<>>

\* the number a value is converted to when it is compared with a number
\* (fieldValue > value): a string by Number(s), an array through its string
\* (elements joined with ","), undefined to NaN; <<n>>, or <<>> for NaN
ToNumber(value) ==
  CASE value.kind = "number" -> <<value.v>>
    [] value.kind = "string" -> StringToNumber(value.v)
    [] value.kind = "array"  ->
         IF Len(value.v) = 0 THEN StringToNumber("")
         ELSE IF Len(value.v) > 1 THEN <<>>
         ELSE IF value.elem = "number" THEN <<value.v[1]>>
         ELSE StringToNumber(value.v[1])
    [] OTHER -> <<>>

\* condition.value, undefined when the node has none
ValueOf(condition) ==
  IF "value" \in DOMAIN condition THEN condition.value ELSE [kind |-> "undefined"]

\* !field: the node has no field name, or an empty one
NoField(condition) ==
  "field" \notin DOMAIN condition \/ condition.field = ""

\* evaluateCondition with a default branch and a missing field name that match
RECURSIVE evaluateCondition_FailOpen(_, _)
evaluateCondition_FailOpen(condition, transaction) ==
  LET operator == condition.operator
      children == "children" \in DOMAIN condition
  IN
  IF operator = "AND" /\ children
    THEN \A i \in 1..Len(condition.children) :
           evaluateCondition_FailOpen(condition.children[i], transaction)
  ELSE IF operator = "OR" /\ children
    THEN \E i \in 1..Len(condition.children) :
           evaluateCondition_FailOpen(condition.children[i], transaction)
  ELSE IF NoField(condition) THEN TRUE
  ELSE
    LET fieldValue == FieldValue(transaction, condition.field)
        value == ValueOf(condition)
        number == fieldValue.kind = "number"
        bound == ToNumber(value)
    IN CASE operator = "EQ"  -> StrictEquals(fieldValue, value)
         [] operator = "NEQ" -> ~StrictEquals(fieldValue, value)
         [] operator = "GT"  -> number /\ bound # <<>> /\ fieldValue.v > bound[1]
         [] operator = "GTE" -> number /\ bound # <<>> /\ fieldValue.v >= bound[1]
         [] operator = "LT"  -> number /\ bound # <<>> /\ fieldValue.v < bound[1]
         [] operator = "LTE" -> number /\ bound # <<>> /\ fieldValue.v <= bound[1]
         [] operator = "IN"  -> Includes(value, fieldValue)
         [] operator = "NOT_IN" -> value.kind = "array" /\ ~Includes(value, fieldValue)
         [] operator = "MATCHES" ->
              fieldValue.kind = "string" /\ value.kind = "string"
                /\ RegExpTest(value.v, fieldValue.v)
         [] OTHER -> TRUE

\* evaluateCondition (lines 289-327)
RECURSIVE evaluateCondition(_, _)
evaluateCondition(condition, transaction) ==
  LET operator == condition.operator
      children == "children" \in DOMAIN condition
  IN
  IF operator = "AND" /\ children
    THEN \A i \in 1..Len(condition.children) :
           evaluateCondition(condition.children[i], transaction)
  ELSE IF operator = "OR" /\ children
    THEN \E i \in 1..Len(condition.children) :
           evaluateCondition(condition.children[i], transaction)
  ELSE IF NoField(condition) THEN FALSE
  ELSE
    LET fieldValue == FieldValue(transaction, condition.field)
        value == ValueOf(condition)
        number == fieldValue.kind = "number"
        bound == ToNumber(value)
    IN CASE operator = "EQ"  -> StrictEquals(fieldValue, value)
         [] operator = "NEQ" -> ~StrictEquals(fieldValue, value)
         [] operator = "GT"  -> number /\ bound # <<>> /\ fieldValue.v > bound[1]
         [] operator = "GTE" -> number /\ bound # <<>> /\ fieldValue.v >= bound[1]
         [] operator = "LT"  -> number /\ bound # <<>> /\ fieldValue.v < bound[1]
         [] operator = "LTE" -> number /\ bound # <<>> /\ fieldValue.v <= bound[1]
         [] operator = "IN"  -> Includes(value, fieldValue)
         [] operator = "NOT_IN" -> value.kind = "array" /\ ~Includes(value, fieldValue)
         [] operator = "MATCHES" ->
              fieldValue.kind = "string" /\ value.kind = "string"
                /\ RegExpTest(value.v, fieldValue.v)
         [] OTHER -> FALSE

\* evaluateRule with passed = conditionMet whatever the action of the rule
evaluateRule_PassedWhenMet(rule, transaction) ==
  LET conditionMet == evaluateCondition(rule.condition, transaction)
  IN [ruleId |-> rule.id, ruleName |-> rule.name, passed |-> conditionMet,
      action |-> IF conditionMet THEN rule.action ELSE "ALLOW",
      severity |-> rule.severity,
      message |-> IF conditionMet THEN <<"Transaction passed rule: ", rule.name>>
                                  ELSE <<"Transaction failed rule: ", rule.name>>]

\* evaluateRule (lines 332-362)
evaluateRule(rule, transaction) ==
  LET conditionMet == evaluateCondition(rule.condition, transaction)
      passed == IF rule.action = "ALLOW" THEN conditionMet ELSE ~conditionMet
      message ==
        IF rule.action = "ALLOW"
          THEN IF conditionMet THEN <<"Transaction passed rule: ", rule.name>>
                               ELSE <<"Transaction failed rule: ", rule.name>>
          ELSE IF conditionMet
                 THEN <<"Rule triggered: ", rule.name, " - ", rule.description>>
                 ELSE <<"Transaction passed rule check: ", rule.name>>
  IN [ruleId |-> rule.id, ruleName |-> rule.name, passed |-> passed,
      action |-> IF conditionMet THEN rule.action ELSE "ALLOW",
      severity |-> rule.severity, message |-> message]

\* the rules left in insertion order
SortByPriority_Unsorted(rs) == rs

\* Array.prototype.sort((a, b) => a.priority - b.priority): a stable sort, so
\* rs[i] comes after the rules of lower priority and the earlier ones of its own
SortByPriority(rs) ==
  LET before(i) == {j \in 1..Len(rs) : \/ rs[j].priority < rs[i].priority
                                       \/ rs[j].priority = rs[i].priority /\ j < i}
  IN [k \in 1..Len(rs) |->
        rs[CHOOSE i \in 1..Len(rs) : Cardinality(before(i)) = k - 1]]

\* the rules without the filter on enabled
Enabled_All(rs) == rs

\* .filter(r => r.enabled)
Enabled(rs) == SelectSeq(rs, LAMBDA r : r.enabled)

\* the loop of evaluateTransaction from rule i on, with the locals so far
RECURSIVE EvaluateFrom(_, _, _, _, _)
EvaluateFrom(activeRules, i, cfg, transaction, acc) ==
  IF i > Len(activeRules) THEN acc
  ELSE
    LET result == evaluateRule(activeRules[i], transaction)
        pushed == [acc EXCEPT !.results = Append(@, result)]
    IN IF result.passed THEN EvaluateFrom(activeRules, i + 1, cfg, transaction, pushed)
       ELSE CASE result.action = "DENY" ->
                   LET denied == [pushed EXCEPT !.allowed = FALSE,
                                                !.denyReason = result.message]
                   IN IF cfg.stopOnFirstDeny THEN denied
                      ELSE EvaluateFrom(activeRules, i + 1, cfg, transaction, denied)
              [] result.action = "FLAG" ->
                   EvaluateFrom(activeRules, i + 1, cfg, transaction,
                                [pushed EXCEPT !.flagged = TRUE])
              [] result.action = "REQUIRE_APPROVAL" ->
                   EvaluateFrom(activeRules, i + 1, cfg, transaction,
                                [pushed EXCEPT !.requiresApproval = TRUE])
              [] OTHER -> EvaluateFrom(activeRules, i + 1, cfg, transaction, pushed)

\* evaluateTransaction that returns at the first DENY whatever the configuration
evaluateTransaction_StopsAtDeny(rs, cfg, transaction) ==
  EvaluateFrom(SortByPriority(Enabled(rs)), 1, [cfg EXCEPT !.stopOnFirstDeny = TRUE],
               transaction,
               [allowed |-> TRUE, results |-> <<>>, flagged |-> FALSE,
                requiresApproval |-> FALSE, denyReason |-> <<>>])

\* evaluateTransaction: activeRules is computed once, then the loop runs;
\* denyReason is <<>> while undefined
evaluateTransaction(rs, cfg, transaction) ==
  LET start == [allowed |-> TRUE, results |-> <<>>, flagged |-> FALSE,
                requiresApproval |-> FALSE, denyReason |-> <<>>]
      filtered == {Enabled(rs)}
      activeRules == {SortByPriority(enabledRules) : enabledRules \in filtered}
  IN CHOOSE evaluation \in {EvaluateFrom(sorted, 1, cfg, transaction, start) :
                              sorted \in activeRules} : TRUE

\* ------------------------------------------------------------------------
\* services/TransactionService.ts
\* ------------------------------------------------------------------------

\* the slot of no call
IdleCall == [op |-> "none", id |-> 0, pc |-> "idle", denyReason |-> <<>>, delay |-> 0, h0 |-> 0]

NoRequest == [type |-> "NONE"]

\* the outcome of a settled call: error is NoError when it returned normally
Result(op, id, error, req, arg) ==
  [op |-> op, id |-> id, error |-> error, req |-> req, arg |-> arg]

\* no call settled in the step
NoResult == Result("none", 0, NoError, NoRequest, "")

\* a call on id is in flight (suspended at an await)
Busy(id) == \E c \in Slots : calls[c].pc # "idle" /\ calls[c].id = id

\* a new call takes the first free slot
FreeSlot(c) ==
  /\ calls[c].pc = "idle"
  /\ \A d \in Slots : d < c => calls[d].pc # "idle"

\* the transitions recorded so far, in all histories
RECURSIVE Recorded(_)
Recorded(ids) ==
  IF ids = {} THEN 0
  ELSE LET i == CHOOSE j \in ids : TRUE
       IN Len(statusHistory[i]) + Recorded(ids \ {i})

\* the transitions the calls in flight may still record
RECURSIVE Reserved(_)
Reserved(slots) ==
  IF slots = {} THEN 0
  ELSE LET c == CHOOSE d \in slots : TRUE
           pc == calls[c].pc
       IN (CASE pc = "reset" -> 3
             [] pc = "validating" -> 2
             [] pc \in {"processing", "delay"} -> 1
             [] OTHER -> 0) + Reserved(slots \ {c})

\* the transitions recorded by direct updateStatus calls, in all histories
RECURSIVE Direct(_)
Direct(ids) ==
  IF ids = {} THEN 0
  ELSE LET i == CHOOSE j \in ids : TRUE
       IN Len(SelectSeq(statusHistory[i], LAMBDA t : t.triggeredBy = "test"))
            + Direct(ids \ {i})

\* there is room for a call that may record n transitions
Room(n, max) == Recorded(DOMAIN statusHistory) + Reserved(Slots) + n <= max

\* a call that throws error at once records nothing, another may record n transitions
Admit(error, n, max) == error = NoError => Room(n, max)

NotFound(id) == <<"Transaction ", ToString(id), " not found">>

\* String.prototype.toUpperCase on the currencies the model uses
ToUpperCase(s) ==
  CASE s = "usd" -> "USD"
    [] s = "eur" -> "EUR"
    [] s = "Jpy" -> "JPY"
    [] s = "us"  -> "US"
    [] OTHER -> s

\* createTransaction: the validation of the request (lines 46-68)
createError(request) ==
  IF "amount" \notin DOMAIN request \/ request.amount = 0 \/ request.amount <= 0
    THEN <<"Amount must be greater than 0">>
  ELSE IF "currency" \notin DOMAIN request \/ request.currency = ""
    THEN <<"Currency is required">>
  ELSE IF "sourceAccount" \notin DOMAIN request \/ request.sourceAccount = ""
    THEN <<"Source account is required">>
  ELSE NoError

\* the transaction object with the currency as given
newTransaction_AsGiven(request, id) ==
  [id |-> id,
   type |-> request.type,
   status |-> "PENDING",
   priority |-> IF "priority" \in DOMAIN request THEN request.priority ELSE "NORMAL",
   amount |-> request.amount,
   currency |-> request.currency,
   sourceAccount |-> request.sourceAccount,
   retryCount |-> 0,
   maxRetries |-> 3,
   errorCode |-> Undefined,
   errorMessage |-> <<>>,
   completedAt |-> FALSE]

\* createTransaction: the transaction object (lines 71-86)
newTransaction(request, id) ==
  [id |-> id,
   type |-> request.type,
   status |-> "PENDING",
   priority |-> IF "priority" \in DOMAIN request THEN request.priority ELSE "NORMAL",
   amount |-> request.amount,
   currency |-> ToUpperCase(request.currency),
   sourceAccount |-> request.sourceAccount,
   retryCount |-> 0,
   maxRetries |-> 3,
   errorCode |-> Undefined,
   errorMessage |-> <<>>,
   completedAt |-> FALSE]

\* uuidv4(): the next unused identifier
NewId == Cardinality(DOMAIN transactions) + 1

createTransaction(request) ==
  /\ UNCHANGED <<calls, now, ruleVars, evalVars, batchVars, hookVars>>
  /\ IF createError(request) # NoError
       THEN /\ lastResult' = Result("create", 0, createError(request), request, "")
            /\ UNCHANGED <<transactions, statusHistory, createdAt>>
       ELSE /\ createdAt' = [i \in DOMAIN transactions \cup {NewId} |->
                               IF i = NewId THEN now ELSE createdAt[i]]
            /\ transactions' = [i \in DOMAIN transactions \cup {NewId} |->
                                  IF i = NewId THEN newTransaction(request, NewId)
                                  ELSE transactions[i]]
            /\ statusHistory' = [i \in DOMAIN transactions \cup {NewId} |->
                                   IF i = NewId THEN <<>> ELSE statusHistory[i]]
            /\ lastResult' = Result("create", NewId, NoError, request, "")

\* updateStatus that lets a transition to the current status through
updateStatusError_Reentrant(id, newStatus) ==
  IF id \notin DOMAIN transactions THEN NotFound(id)
  ELSE IF /\ newStatus \notin VALID_STATUS_TRANSITIONS[transactions[id].status]
          /\ newStatus # transactions[id].status
    THEN <<"Invalid status transition from ", transactions[id].status, " to ", newStatus>>
  ELSE NoError

\* updateStatus: what it throws (lines 171-188), NoError when it goes through
updateStatusError(id, newStatus) ==
  IF id \notin DOMAIN transactions THEN NotFound(id)
  ELSE IF newStatus \notin VALID_STATUS_TRANSITIONS[transactions[id].status]
    THEN <<"Invalid status transition from ", transactions[id].status, " to ", newStatus>>
  ELSE NoError

\* the StatusTransition with the status read after it has been changed
Transition_FromNew(id, newStatus, triggeredBy, reason) ==
  [transactionId |-> id, fromStatus |-> newStatus, toStatus |-> newStatus,
   reason |-> reason, triggeredBy |-> triggeredBy]

\* updateStatus: the StatusTransition it records (lines 196-203)
Transition(id, newStatus, triggeredBy, reason) ==
  [transactionId |-> id, fromStatus |-> transactions[id].status, toStatus |-> newStatus,
   reason |-> reason, triggeredBy |-> triggeredBy]

\* updateStatus: its effect on the store when it goes through (lines 190-207)
updateStatus(id, newStatus, triggeredBy, reason) ==
  /\ transactions' = [transactions EXCEPT ![id].status = newStatus]
  /\ statusHistory' = [statusHistory EXCEPT
                         ![id] = Append(@, Transition(id, newStatus, triggeredBy, reason))]

\* the call in slot c settles: it returns (NoError) or throws
Settle(c, error) ==
  /\ lastResult' = Result(calls[c].op, calls[c].id, error, NoRequest, "")
  /\ calls' = [calls EXCEPT ![c] = IdleCall]

\* a statement `await this.updateStatus(id, newStatus, ...)` of the call in slot c:
\* it throws, or changes the status and suspends the call at pc
AwaitUpdateStatus(c, call, newStatus, triggeredBy, reason, pc) ==
  IF updateStatusError(call.id, newStatus) # NoError
    THEN /\ lastResult' = Result(call.op, call.id, updateStatusError(call.id, newStatus),
                                 NoRequest, "")
         /\ calls' = [calls EXCEPT ![c] = IdleCall]
         /\ UNCHANGED <<transactions, statusHistory>>
    ELSE /\ updateStatus(call.id, newStatus, triggeredBy, reason)
         /\ calls' = [calls EXCEPT ![c] = [call EXCEPT !.pc = pc]]
         /\ lastResult' = NoResult

\* processTransaction up to its first await (lines 101-112)
processStart(c, call) ==
  AwaitUpdateStatus(c, call, "VALIDATING", "system", <<"Starting validation">>, "validating")

\* processTransaction(transactionId), called from outside
processTransaction(c, id) ==
  /\ FreeSlot(c)
  /\ processStart(c, [IdleCall EXCEPT !.op = "process", !.id = id,
                        !.h0 = IF id \in DOMAIN statusHistory
                                 THEN Len(statusHistory[id]) ELSE 0])
  /\ UNCHANGED <<ruleVars, clockVars, evalVars, batchVars, hookVars>>

\* after the await of line 112: the rules are evaluated (lines 115-132)
processEvaluate(c) ==
  /\ calls[c].pc = "validating"
  /\ \E call \in {calls[c]} :
     \E evaluation \in {evaluateTransaction(rules, config, transactions[call.id])} :
        IF ~evaluation.allowed
          THEN AwaitUpdateStatus(c, [call EXCEPT !.denyReason = evaluation.denyReason],
                 "FAILED", "rules-engine",
                 IF evaluation.denyReason # <<>> THEN evaluation.denyReason
                 ELSE <<"Rule validation failed">>,
                 "denied")
          ELSE AwaitUpdateStatus(c, call, "PROCESSING", "system",
                 <<"Processing transaction">>, "processing")
  /\ UNCHANGED <<ruleVars, clockVars, evalVars, batchVars, hookVars>>

\* after the await of line 118: the rule violation is recorded (lines 124-128)
processDenied(c) ==
  /\ calls[c].pc = "denied"
  /\ transactions' = [transactions EXCEPT
                        ![calls[c].id].errorCode = ERROR_CODES.RULE_VIOLATION,
                        ![calls[c].id].errorMessage = calls[c].denyReason]
  /\ Settle(c, NoError)
  /\ UNCHANGED <<statusHistory, ruleVars, clockVars, evalVars, batchVars, hookVars>>

\* a process call that returns as soon as the transaction is PROCESSING and
\* leaves the rest undone
processDelay_Returns(c) ==
  /\ calls[c].pc = "processing"
  /\ Settle(c, NoError)
  /\ UNCHANGED <<transactions, statusHistory, ruleVars, clockVars, evalVars, batchVars, hookVars>>

\* after the await of line 132: the simulated delay starts (lines 135-136)
processDelay(c) ==
  /\ calls[c].pc = "processing"
  /\ calls' = [calls EXCEPT ![c].pc = "delay",
                            ![c].delay = PROCESSING_DELAYS[transactions[calls[c].id].priority]]
  /\ lastResult' = NoResult
  /\ UNCHANGED <<transactions, statusHistory, ruleVars, clockVars, evalVars, batchVars, hookVars>>

\* after the delay: the outcome is drawn (lines 139-148)
processOutcome(c) ==
  /\ calls[c].pc = "delay"
  /\ \E success \in BOOLEAN :
       IF success
         THEN AwaitUpdateStatus(c, calls[c], "COMPLETED", "system",
                <<"Transaction completed successfully">>, "completed")
         ELSE AwaitUpdateStatus(c, calls[c], "FAILED", "system",
                <<"Processing failed">>, "failed")
  /\ UNCHANGED <<ruleVars, clockVars, evalVars, batchVars, hookVars>>

\* the end of a successful processTransaction without the completedAt stamp
processCompleted_NoStamp(c) ==
  /\ calls[c].pc = "completed"
  /\ Settle(c, NoError)
  /\ UNCHANGED <<transactions, statusHistory, ruleVars, clockVars, evalVars, batchVars, hookVars>>

\* after the await of line 142 (lines 143-146)
processCompleted(c) ==
  /\ calls[c].pc = "completed"
  /\ transactions' = [transactions EXCEPT ![calls[c].id].completedAt = TRUE]
  /\ Settle(c, NoError)
  /\ UNCHANGED <<statusHistory, ruleVars, clockVars, evalVars, batchVars, hookVars>>

\* after the await of line 148 (lines 149-158)
processFailed(c) ==
  /\ calls[c].pc = "failed"
  /\ transactions' = [transactions EXCEPT
                        ![calls[c].id].errorCode = ERROR_CODES.PROCESSING_FAILED,
                        ![calls[c].id].errorMessage = <<"Simulated processing failure">>]
  /\ Settle(c, NoError)
  /\ UNCHANGED <<statusHistory, ruleVars, clockVars, evalVars, batchVars, hookVars>>

\* the checks of retryTransaction with the retry bound tested before the status
retryError_BoundFirst(id) ==
  IF id \notin DOMAIN transactions THEN NotFound(id)
  ELSE IF transactions[id].retryCount >= transactions[id].maxRetries
    THEN <<"Maximum retry attempts (", ToString(transactions[id].maxRetries), ") exceeded">>
  ELSE IF transactions[id].status # "FAILED"
    THEN <<"Only failed transactions can be retried">>
  ELSE NoError

\* retryTransaction: the checks before anything is changed (lines 218-229)
retryError(id) ==
  IF id \notin DOMAIN transactions THEN NotFound(id)
  ELSE IF transactions[id].status # "FAILED"
    THEN <<"Only failed transactions can be retried">>
  ELSE IF transactions[id].retryCount >= transactions[id].maxRetries
    THEN <<"Maximum retry attempts (", ToString(transactions[id].maxRetries), ") exceeded">>
  ELSE NoError

\* retryTransaction leaving errorCode and errorMessage in place
retryTransaction_KeepsError(c, id) ==
  /\ FreeSlot(c)
  /\ UNCHANGED <<ruleVars, clockVars, evalVars, batchVars, hookVars>>
  /\ IF retryError(id) # NoError
       THEN /\ lastResult' = Result("retry", id, retryError(id), NoRequest, "")
            /\ UNCHANGED <<transactions, statusHistory, calls>>
       ELSE /\ transactions' = [transactions EXCEPT ![id].retryCount = @ + 1,
                                                    ![id].status = "PENDING"]
            /\ statusHistory' =
                 [statusHistory EXCEPT
                    ![id] = Append(@, Transition(id, "PENDING", "retry-system",
                                                 <<"Retry initiated">>))]
            /\ calls' = [calls EXCEPT
                           ![c] = [IdleCall EXCEPT !.op = "retry", !.id = id,
                                     !.pc = "reset",
                                     !.h0 = Len(statusHistory[id])]]
            /\ lastResult' = NoResult

\* retryTransaction that leaves retryCount as it is
retryTransaction_Uncounted(c, id) ==
  /\ FreeSlot(c)
  /\ UNCHANGED <<ruleVars, clockVars, evalVars, batchVars, hookVars>>
  /\ IF retryError(id) # NoError
       THEN /\ lastResult' = Result("retry", id, retryError(id), NoRequest, "")
            /\ UNCHANGED <<transactions, statusHistory, calls>>
       ELSE LET reset == [transactions EXCEPT ![id].errorCode = Undefined,
                                              ![id].errorMessage = <<>>]
            IN IF updateStatusError(id, "PENDING") # NoError
                 THEN /\ transactions' = reset
                      /\ lastResult' = Result("retry", id, updateStatusError(id, "PENDING"),
                                              NoRequest, "")
                      /\ UNCHANGED <<statusHistory, calls>>
                 ELSE /\ transactions' = [reset EXCEPT ![id].status = "PENDING"]
                      /\ statusHistory' =
                           [statusHistory EXCEPT
                              ![id] = Append(@, Transition(id, "PENDING", "retry-system",
                                                           <<"Retry initiated">>))]
                      /\ calls' = [calls EXCEPT
                                     ![c] = [IdleCall EXCEPT !.op = "retry", !.id = id,
                                               !.pc = "reset",
                                               !.h0 = Len(statusHistory[id])]]
                      /\ lastResult' = NoResult

\* retryTransaction up to its await (lines 218-235)
retryTransaction(c, id) ==
  /\ FreeSlot(c)
  /\ UNCHANGED <<ruleVars, clockVars, evalVars, batchVars, hookVars>>
  /\ IF retryError(id) # NoError
       THEN /\ lastResult' = Result("retry", id, retryError(id), NoRequest, "")
            /\ UNCHANGED <<transactions, statusHistory, calls>>
       ELSE LET reset == [transactions EXCEPT ![id].retryCount = @ + 1,
                                              ![id].errorCode = Undefined,
                                              ![id].errorMessage = <<>>]
            IN IF updateStatusError(id, "PENDING") # NoError
                 THEN /\ transactions' = reset
                      /\ lastResult' = Result("retry", id, updateStatusError(id, "PENDING"),
                                              NoRequest, "")
                      /\ UNCHANGED <<statusHistory, calls>>
                 ELSE /\ transactions' = [reset EXCEPT ![id].status = "PENDING"]
                      /\ statusHistory' =
                           [statusHistory EXCEPT
                              ![id] = Append(@, Transition(id, "PENDING", "retry-system",
                                                           <<"Retry initiated">>))]
                      /\ calls' = [calls EXCEPT
                                     ![c] = [IdleCall EXCEPT !.op = "retry", !.id = id,
                                               !.pc = "reset",
                                               !.h0 = Len(statusHistory[id])]]
                      /\ lastResult' = NoResult

\* after the await of line 235: `return this.processTransaction(transactionId)`
retryProcess(c) ==
  /\ calls[c].pc = "reset"
  /\ processStart(c, calls[c])
  /\ UNCHANGED <<ruleVars, clockVars, evalVars, batchVars, hookVars>>

\* the checks of cancelTransaction without the one for COMPLETED
cancelError_NoCompletedCheck(id) ==
  IF id \notin DOMAIN transactions THEN NotFound(id)
  ELSE IF transactions[id].status = "CANCELLED"
    THEN <<"Transaction is already cancelled">>
  ELSE NoError

\* cancelTransaction: its own checks (lines 245-256)
cancelError(id) ==
  IF id \notin DOMAIN transactions THEN NotFound(id)
  ELSE IF transactions[id].status = "COMPLETED"
    THEN <<"Cannot cancel a completed transaction. Use refund instead.">>
  ELSE IF transactions[id].status = "CANCELLED"
    THEN <<"Transaction is already cancelled">>
  ELSE NoError

\* refundTransaction: its own checks (lines 265-272)
refundError(id) ==
  IF id \notin DOMAIN transactions THEN NotFound(id)
  ELSE IF transactions[id].status # "COMPLETED"
    THEN <<"Only completed transactions can be refunded">>
  ELSE NoError

\* a method that checks and then returns this.updateStatus(...): one step, no await
CheckThenUpdateStatus(op, id, error, newStatus, triggeredBy, reason) ==
  LET thrown == IF error # NoError THEN error ELSE updateStatusError(id, newStatus)
  IN /\ lastResult' = Result(op, id, thrown, NoRequest, newStatus)
     /\ IF thrown # NoError
          THEN UNCHANGED <<transactions, statusHistory>>
          ELSE updateStatus(id, newStatus, triggeredBy, reason)

\* cancelTransaction setting CANCELLED itself, past the transition table
cancelTransaction_PastTable(id) ==
  /\ lastResult' = Result("cancel", id, cancelError(id), NoRequest, "CANCELLED")
  /\ IF cancelError(id) # NoError
       THEN UNCHANGED <<transactions, statusHistory>>
       ELSE updateStatus(id, "CANCELLED", "user", <<"Cancelled by user">>)
  /\ UNCHANGED <<calls, ruleVars, clockVars, evalVars, batchVars, hookVars>>

\* cancelTransaction(transactionId) without a reason
cancelTransaction(id) ==
  /\ CheckThenUpdateStatus("cancel", id, cancelError(id), "CANCELLED", "user",
                           <<"Cancelled by user">>)
  /\ UNCHANGED <<calls, ruleVars, clockVars, evalVars, batchVars, hookVars>>

\* refundTransaction(transactionId) without a reason
refundTransaction(id) ==
  /\ CheckThenUpdateStatus("refund", id, refundError(id), "REFUNDED", "user",
                           <<"Refunded by user">>)
  /\ UNCHANGED <<calls, ruleVars, clockVars, evalVars, batchVars, hookVars>>

\* updateStatus(transactionId, newStatus, 'test') called from outside, as the tests do
directUpdateStatus(id, newStatus) ==
  /\ CheckThenUpdateStatus("updateStatus", id, NoError, newStatus, "test", <<>>)
  /\ UNCHANGED <<calls, ruleVars, clockVars, evalVars, batchVars, hookVars>>

\* ------------------------------------------------------------------------
\* services/WebhookService.ts (in-memory storage)
\* ------------------------------------------------------------------------

WEBHOOK_EVENTS ==
  [TRANSACTION_CREATED |-> "transaction.created",
   TRANSACTION_PROCESSING |-> "transaction.processing",
   TRANSACTION_COMPLETED |-> "transaction.completed",
   TRANSACTION_FAILED |-> "transaction.failed",
   TRANSACTION_CANCELLED |-> "transaction.cancelled",
   TRANSACTION_REFUNDED |-> "transaction.refunded",
   RULE_TRIGGERED |-> "rule.triggered",
   ERROR_CRITICAL |-> "error.critical"]

\* a string that an `if (s)` takes for true
Truthy(s) == s # ""

\* createWebhook: the Webhook it stores (lines 48-60); secret is absent when
\* data has none
newWebhook(data, id) ==
  [id |-> id, name |-> data.name, url |-> data.url, events |-> data.events,
   isActive |-> TRUE, retryCount |-> 0, maxRetries |-> 3]
    @@ (IF "secret" \in DOMAIN data THEN [secret |-> data.secret] ELSE <<>>)

\* createWebhook(data) (lines 42-72)
createWebhook(data) ==
  /\ webhooks' = [i \in DOMAIN webhooks \cup {hookUuids + 1} |->
                    IF i = hookUuids + 1 THEN newWebhook(data, hookUuids + 1)
                    ELSE webhooks[i]]
  /\ hookUuids' = hookUuids + 1
  /\ UNCHANGED <<hookCalls, webhookLogs, deliveries, triggered, posts>>
  /\ UNCHANGED <<txVars, ruleVars, clockVars, evalVars, batchVars>>

\* updateWebhook(id, updates) (lines 140-146): null for an unknown id
updateWebhook(id, updates) ==
  /\ hookCalls' = hookCalls + 1
  /\ webhooks' = IF id \in DOMAIN webhooks
                   THEN [webhooks EXCEPT ![id] = updates @@ @]
                   ELSE webhooks
  /\ UNCHANGED <<hookUuids, webhookLogs, deliveries, triggered, posts>>
  /\ UNCHANGED <<txVars, ruleVars, clockVars, evalVars, batchVars>>

\* deleteWebhook(id) (lines 152-159)
deleteWebhook(id) ==
  /\ hookCalls' = hookCalls + 1
  /\ webhooks' = [i \in DOMAIN webhooks \ {id} |-> webhooks[i]]
  /\ UNCHANGED <<hookUuids, webhookLogs, deliveries, triggered, posts>>
  /\ UNCHANGED <<txVars, ruleVars, clockVars, evalVars, batchVars>>

\* the subscribers of the event, active or not
getActiveWebhooksForEvent_All(event) ==
  {i \in DOMAIN webhooks : event \in webhooks[i].events}

\* getActiveWebhooksForEvent(event) (lines 174-177): the ids of the webhooks
\* it returns
getActiveWebhooksForEvent(event) ==
  {i \in DOMAIN webhooks : webhooks[i].isActive /\ event \in webhooks[i].events}

\* sendWebhook: the envelope (lines 189-193)
Envelope(event, timestamp, payload) ==
  [event |-> event, timestamp |-> timestamp, payload |-> payload]

\* JSON.stringify of an envelope: its keys and values in the order of the
\* object literal
JSONstringify(body) ==
  <<"{", "event", body.event, "timestamp", body.timestamp, "payload", body.payload, "}">>

\* a signature computed over the envelope without its timestamp
generateSignature_NoTimestamp(payload, secret) ==
  <<"hmac-sha256-hex", secret, [payload EXCEPT ![5] = <<>>]>>

\* generateSignature(payload, secret) (lines 270-272): the digest is a
\* function of the key and the text, taken as collision-free
generateSignature(payload, secret) ==
  <<"hmac-sha256-hex", secret, payload>>

\* sendWebhook: the headers (lines 195-205)
Headers(webhook, event, timestamp, payload) ==
  [h \in {"Content-Type", "X-Webhook-Event", "X-Webhook-Timestamp"} |->
     CASE h = "Content-Type" -> "application/json"
       [] h = "X-Webhook-Event" -> event
       [] h = "X-Webhook-Timestamp" -> timestamp]
    @@ (IF "secret" \in DOMAIN webhook /\ Truthy(webhook.secret)
          THEN [h \in {"X-Webhook-Signature"} |->
                  generateSignature(JSONstringify(Envelope(event, timestamp, payload)),
                                    webhook.secret)]
          ELSE <<>>)

\* sendWebhook(webhook, event, payload, attempt) suspended at its await (lines
\* 188-213); trigger is the triggerEvent call the delivery belongs to
Posted(trigger, webhook, event, payload, attempt, timestamp) ==
  [trigger |-> trigger, webhook |-> webhook, event |-> event, payload |-> payload,
   attempt |-> attempt, stage |-> "posted", timestamp |-> timestamp]

\* the request axios.post sends for it (lines 210-213): axios serializes the
\* envelope as JSON
Request(delivery) ==
  [url |-> delivery.webhook.url,
   data |-> JSONstringify(Envelope(delivery.event, delivery.timestamp, delivery.payload)),
   headers |-> Headers(delivery.webhook, delivery.event, delivery.timestamp,
                       delivery.payload)]

\* a retry that looks the webhook up again in the store
Scheduled_LooksUp(delivery) ==
  [trigger |-> delivery.trigger,
   webhook |-> IF delivery.webhook.id \in DOMAIN webhooks
                 THEN webhooks[delivery.webhook.id] ELSE delivery.webhook,
   event |-> delivery.event,
   payload |-> delivery.payload, attempt |-> delivery.attempt + 1, stage |-> "scheduled",
   timestamp |-> <<>>]

\* the callback handed to setTimeout (lines 257-259), until the timer fires
Scheduled(delivery) ==
  [trigger |-> delivery.trigger, webhook |-> delivery.webhook, event |-> delivery.event,
   payload |-> delivery.payload, attempt |-> delivery.attempt + 1, stage |-> "scheduled",
   timestamp |-> <<>>]

\* new Date().toISOString() (line 188): the instant of attempt number attempt
\* for triggerEvent call number trigger
Instant(trigger, attempt) == <<"T", trigger, attempt>>

\* uuidv4() (lines 216 and 232): an id that no other log has
LogId(delivery) == <<"log", delivery.trigger, delivery.webhook.id, delivery.attempt>>

\* the outcomes of axios.post: a 2xx response, or an error (network error,
\* timeout, other status)
Outcomes == {"delivered", "failed"}

\* sendWebhook: the WebhookLog of an attempt (lines 215-227 and 231-244)
WebhookLog(id, delivery, outcome) ==
  [id |-> id, webhookId |-> delivery.webhook.id, event |-> delivery.event,
   payload |-> delivery.payload, success |-> outcome = "delivered",
   attempts |-> delivery.attempt]
    @@ (IF outcome = "delivered" THEN [response |-> [status |-> 200]]
        ELSE [error |-> "connect ECONNREFUSED"])

\* a log stored under the id of its webhook
saveLog_PerWebhook(logs, log) ==
  {l \in logs : l.webhookId # log.webhookId} \cup {log}

\* saveLog(log) (lines 277-283): inMemoryWebhookLogs.set(log.id, log)
saveLog(logs, log) ==
  {l \in logs : l.id # log.id} \cup {log}

\* the first attempts of triggerEvent call number trigger
FirstAttempts(trigger, event, payload) ==
  { Posted(trigger, webhooks[i], event, payload, 1, Instant(trigger, 1)) :
      i \in getActiveWebhooksForEvent(event) }

\* triggerEvent(event, payload) up to its await (lines 164-168): the webhooks
\* are selected and sendWebhook is called for each
TriggerEvent(event, payload, caller) ==
  /\ triggered' = Append(triggered, [event |-> event, payload |-> payload,
                                     caller |-> caller,
                                     selected |-> {webhooks[i] :
                                       i \in getActiveWebhooksForEvent(event)}])
  /\ deliveries' = deliveries \cup FirstAttempts(Len(triggered) + 1, event, payload)

\* a triggerEvent that returns only when the retries are over as well
Awaited_Retries(trigger) ==
  \E d \in deliveries : d.trigger = trigger

\* triggerEvent call number trigger has not returned: a first attempt of it
\* has not settled
Awaited(trigger) ==
  \E d \in deliveries : d.trigger = trigger /\ d.attempt = 1 /\ d.stage = "posted"

\* triggerEvent(event, payload) called from outside
triggerEvent(event, payload) ==
  /\ TriggerEvent(event, payload, "direct")
  /\ UNCHANGED <<webhooks, hookUuids, hookCalls, webhookLogs, posts>>
  /\ UNCHANGED <<txVars, ruleVars, clockVars, evalVars, batchVars>>

\* sendWebhook after its await, with a retry also after attempt maxRetries
Respond_OneMore(delivery, outcome) ==
  /\ delivery.stage = "posted"
  /\ posts' = posts \cup {[trigger |-> delivery.trigger,
                            webhookId |-> delivery.webhook.id,
                            attempt |-> delivery.attempt, outcome |-> outcome]}
  /\ webhookLogs' = saveLog(webhookLogs, WebhookLog(LogId(delivery), delivery, outcome))
  /\ deliveries' =
       (deliveries \ {delivery}) \cup
         (IF outcome = "failed" /\ delivery.attempt <= delivery.webhook.maxRetries
            THEN {Scheduled(delivery)} ELSE {})
  /\ UNCHANGED <<webhooks, hookUuids, hookCalls, triggered>>
  /\ UNCHANGED <<txVars, ruleVars, clockVars, evalVars, batchVars>>

\* sendWebhook after its await, with the retry set after a delivered attempt
\* as well
Respond_RetriesDelivered(delivery, outcome) ==
  /\ delivery.stage = "posted"
  /\ posts' = posts \cup {[trigger |-> delivery.trigger,
                            webhookId |-> delivery.webhook.id,
                            attempt |-> delivery.attempt, outcome |-> outcome]}
  /\ webhookLogs' = saveLog(webhookLogs, WebhookLog(LogId(delivery), delivery, outcome))
  /\ deliveries' =
       (deliveries \ {delivery}) \cup
         (IF delivery.attempt < delivery.webhook.maxRetries
            THEN {Scheduled(delivery)} ELSE {})
  /\ UNCHANGED <<webhooks, hookUuids, hookCalls, triggered>>
  /\ UNCHANGED <<txVars, ruleVars, clockVars, evalVars, batchVars>>

\* sendWebhook after its await (lines 214-264): axios.post returned or threw,
\* the log is written, and a failed attempt below maxRetries sets its timer
Respond(delivery, outcome) ==
  /\ delivery.stage = "posted"
  /\ posts' = posts \cup {[trigger |-> delivery.trigger,
                            webhookId |-> delivery.webhook.id,
                            attempt |-> delivery.attempt, outcome |-> outcome]}
  /\ webhookLogs' = saveLog(webhookLogs, WebhookLog(LogId(delivery), delivery, outcome))
  /\ deliveries' =
       (deliveries \ {delivery}) \cup
         (IF outcome = "failed" /\ delivery.attempt < delivery.webhook.maxRetries
            THEN {Scheduled(delivery)} ELSE {})
  /\ UNCHANGED <<webhooks, hookUuids, hookCalls, triggered>>
  /\ UNCHANGED <<txVars, ruleVars, clockVars, evalVars, batchVars>>

\* the timer of a retry fires (line 258): sendWebhook runs up to its await
TimerFires(delivery) ==
  /\ delivery.stage = "scheduled"
  /\ deliveries' = (deliveries \ {delivery}) \cup
                     {Posted(delivery.trigger, delivery.webhook, delivery.event,
                             delivery.payload, delivery.attempt,
                             Instant(delivery.trigger, delivery.attempt))}
  /\ UNCHANGED <<webhooks, hookUuids, hookCalls, webhookLogs, triggered, posts>>
  /\ UNCHANGED <<txVars, ruleVars, clockVars, evalVars, batchVars>>

\* ------------------------------------------------------------------------
\* services/BatchService.ts: BatchService
\* ------------------------------------------------------------------------

\* private maxBatchSize = 100
DefaultMaxBatchSize == 100

\* setMaxBatchSize: the largest size it takes
MaxBatchSizeLimit == 1000

\* no batch call has been made
IdleBatch ==
  [op |-> "none", pc |-> "idle", input |-> <<>>, i |-> 1, done |-> <<>>,
   failed |-> <<>>, waits |-> {}, error |-> NoError, summary |-> <<>>,
   created |-> 0, recorded |-> 0, announced |-> 0, limit |-> <<>>]

\* a batch call that has passed its size check: the two result lists are
\* empty; created, recorded and announced are the sizes of the store, of the
\* histories and of the list of triggered events when it was made
StartedBatch(op, input) ==
  [IdleBatch EXCEPT !.op = op, !.pc = "running", !.input = input,
                    !.created = Cardinality(DOMAIN transactions),
                    !.recorded = Recorded(DOMAIN statusHistory),
                    !.announced = Len(triggered)]

\* a batch call without the size check
batchSizeError_Unchecked(input) == NoError

\* the size check of batchCreate and batchProcess (lines 58-60 and 102-104)
batchSizeError(input) ==
  IF Len(input) > maxBatchSize
    THEN <<"Batch size exceeds maximum of ", ToString(maxBatchSize)>>
  ELSE NoError

\* a batch call is made: no other batch call is running
BatchCall(op, input, error) ==
  /\ batch.pc # "running"
  /\ lastResult = NoResult
  /\ batchCalls' = batchCalls + 1
  /\ batch' = IF error # NoError
                THEN [StartedBatch(op, input) EXCEPT !.pc = "done", !.error = error]
                ELSE StartedBatch(op, input)
  /\ UNCHANGED <<maxBatchSize, txVars, ruleVars, clockVars, evalVars, hookVars>>

\* batchCreate(requests) up to its first createTransaction (lines 57-63)
batchCreate(requests) == BatchCall("batchCreate", requests, batchSizeError(requests))

\* batchProcess(transactionIds) up to its loop (lines 101-107)
batchProcess(transactionIds) ==
  BatchCall("batchProcess", transactionIds, batchSizeError(transactionIds))

\* batchCancel(transactionIds) up to its loop (lines 153-158)
batchCancel(transactionIds) == BatchCall("batchCancel", transactionIds, NoError)

\* batchRetry(transactionIds) up to its loop (lines 176-178)
batchRetry(transactionIds) == BatchCall("batchRetry", transactionIds, NoError)

\* the batch call is about to make the call for its next item: the call for
\* the item before has been taken, and in the loops of batchProcess and
\* batchCancel the triggerEvent awaited for it has returned
AtNextItem ==
  /\ batch.pc = "running"
  /\ batch.i <= Len(batch.input)
  /\ lastResult = NoResult
  /\ \A c \in Slots : calls[c].pc = "idle"
  /\ batch.op # "batchCreate" => \A k \in batch.waits : ~Awaited(k)

\* the call for the next item (lines 67, 112, 162, 182)
BatchItem ==
  /\ AtNextItem
  /\ CASE batch.op = "batchCreate" -> createTransaction(batch.input[batch.i])
       [] batch.op = "batchProcess" ->
            \E c \in Slots : processTransaction(c, batch.input[batch.i])
       [] batch.op = "batchCancel" -> cancelTransaction(batch.input[batch.i])
       [] batch.op = "batchRetry" ->
            \E c \in Slots : retryTransaction(c, batch.input[batch.i])

\* every transaction that comes back from a batch call is announced as completed
BatchEvent_Completed(id) ==
  IF batch.op = "batchRetry" THEN "" ELSE WEBHOOK_EVENTS.TRANSACTION_COMPLETED

\* the event a batch call announces for the transaction its call returned
\* (lines 71, 116-118 and 164); batchRetry announces none
BatchEvent(id) ==
  CASE batch.op = "batchCreate" -> WEBHOOK_EVENTS.TRANSACTION_CREATED
    [] batch.op = "batchProcess" ->
         IF transactions[id].status = "COMPLETED"
           THEN WEBHOOK_EVENTS.TRANSACTION_COMPLETED
           ELSE WEBHOOK_EVENTS.TRANSACTION_FAILED
    [] batch.op = "batchCancel" -> WEBHOOK_EVENTS.TRANSACTION_CANCELLED
    [] OTHER -> ""

\* the payload of that event: the transaction, here its id, and in
\* batchCreate the index of the request
BatchPayload(id) ==
  IF batch.op = "batchCreate"
    THEN [transaction |-> id, batchIndex |-> batch.i - 1]
    ELSE [transaction |-> id]

\* the entry of the failed list for the call that threw (lines 76-80, 122-125,
\* 166, 185)
FailedEntry ==
  IF batch.op = "batchCreate"
    THEN [index |-> batch.i - 1, request |-> lastResult.req, error |-> lastResult.error]
    ELSE [transactionId |-> lastResult.id, error |-> lastResult.error]

\* the continuation with a catch that gives up the rest of the input
BatchTake_StopsOnFailure ==
  /\ batch.pc = "running"
  /\ lastResult # NoResult
  /\ lastResult' = NoResult
  /\ UNCHANGED <<transactions, statusHistory, calls, ruleVars, clockVars, evalVars,
                 maxBatchSize, batchCalls, webhooks, hookUuids, hookCalls, webhookLogs,
                 posts>>
  /\ IF lastResult.error # NoError
       THEN /\ batch' = [batch EXCEPT !.i = Len(batch.input) + 1,
                                      !.failed = Append(@, FailedEntry)]
            /\ UNCHANGED <<deliveries, triggered>>
       ELSE IF batch.op = "batchRetry"
         THEN /\ batch' = [batch EXCEPT !.i = @ + 1, !.done = Append(@, lastResult.id)]
              /\ UNCHANGED <<deliveries, triggered>>
         ELSE /\ batch' = [batch EXCEPT !.i = @ + 1, !.done = Append(@, lastResult.id),
                                        !.waits = @ \cup {Len(triggered) + 1}]
              /\ TriggerEvent(BatchEvent(lastResult.id), BatchPayload(lastResult.id),
                              batch.op)

\* the continuation of the awaited call: the transaction is pushed and its
\* event triggered, or the error is caught and pushed (lines 68-81, 113-133,
\* 163-167, 183-186)
BatchTake ==
  /\ batch.pc = "running"
  /\ lastResult # NoResult
  /\ lastResult' = NoResult
  /\ UNCHANGED <<transactions, statusHistory, calls, ruleVars, clockVars, evalVars,
                 maxBatchSize, batchCalls, webhooks, hookUuids, hookCalls, webhookLogs,
                 posts>>
  /\ IF lastResult.error # NoError
       THEN /\ batch' = [batch EXCEPT !.i = @ + 1, !.failed = Append(@, FailedEntry)]
            /\ UNCHANGED <<deliveries, triggered>>
       ELSE IF batch.op = "batchRetry"
         THEN /\ batch' = [batch EXCEPT !.i = @ + 1, !.done = Append(@, lastResult.id)]
              /\ UNCHANGED <<deliveries, triggered>>
         ELSE /\ batch' = [batch EXCEPT !.i = @ + 1, !.done = Append(@, lastResult.id),
                                        !.waits = @ \cup {Len(triggered) + 1}]
              /\ TriggerEvent(BatchEvent(lastResult.id), BatchPayload(lastResult.id),
                              batch.op)

\* one decimal by truncation
toFixed_Truncated(num, den) ==
  IF den = 0 THEN <<"NaN">>
  ELSE <<ToString(((1000 * num) \div den) \div 10), ".",
         ToString(((1000 * num) \div den) % 10)>>

\* Number.prototype.toFixed(1) of (num / den) * 100 (lines 93, 145, 198): the
\* nearest tenth, the larger one of two equally near; 0 / 0 is NaN
toFixed(num, den) ==
  IF den = 0 THEN <<"NaN">>
  ELSE LET tenths == (2000 * num + den) \div (2 * den)
       IN <<ToString(tenths \div 10), ".", ToString(tenths % 10)>>

\* the transactions of the done list that are COMPLETED when the call returns
\* (lines 136 and 189)
Completed(done) ==
  Len(SelectSeq(done, LAMBDA id : transactions[id].status = "COMPLETED"))

\* the summary of the returned object (lines 89-94, 141-146, 194-199);
\* batchCancel returns none
Summary ==
  CASE batch.op = "batchCreate" ->
         [total |-> Len(batch.input), success |-> Len(batch.done),
          failed |-> Len(batch.failed),
          successRate |-> toFixed(Len(batch.done), Len(batch.input)) \o <<"%">>]
    [] batch.op \in {"batchProcess", "batchRetry"} ->
         [total |-> Len(batch.input), completed |-> Completed(batch.done),
          failed |-> Len(batch.failed) + (Len(batch.done) - Completed(batch.done)),
          successRate |-> toFixed(Completed(batch.done), Len(batch.input)) \o <<"%">>]
    [] OTHER -> <<>>

\* the batch call returns (lines 84-95, 136-147, 170, 189-200): every item has
\* been taken and every triggerEvent it awaits has returned
BatchReturn ==
  /\ batch.pc = "running"
  /\ batch.i > Len(batch.input)
  /\ lastResult = NoResult
  /\ \A k \in batch.waits : ~Awaited(k)
  /\ batch' = [batch EXCEPT !.pc = "done", !.summary = Summary]
  /\ UNCHANGED <<maxBatchSize, batchCalls, txVars, ruleVars, clockVars, evalVars, hookVars>>

\* the check of setMaxBatchSize with the upper end left out
setMaxBatchSizeError_Exclusive(size) ==
  IF size < 1 \/ size >= MaxBatchSizeLimit
    THEN <<"Batch size must be between 1 and 1000">>
  ELSE NoError

\* setMaxBatchSize: what it throws (lines 223-225)
setMaxBatchSizeError(size) ==
  IF size < 1 \/ size > MaxBatchSizeLimit
    THEN <<"Batch size must be between 1 and 1000">>
  ELSE NoError

\* setMaxBatchSize(size) (lines 222-227)
setMaxBatchSize(size) ==
  /\ lastResult = NoResult
  /\ lastResult' = Result("setMaxBatchSize", 0, setMaxBatchSizeError(size), NoRequest,
                          ToString(size))
  /\ maxBatchSize' = IF setMaxBatchSizeError(size) # NoError THEN maxBatchSize ELSE size
  /\ UNCHANGED <<batch, batchCalls, transactions, statusHistory, calls, ruleVars, clockVars,
                 evalVars, hookVars>>

\* the place of a transaction in the list getAllTransactions returns: the
\* values of the Map in insertion order, sorted by descending createdAt with a
\* sort that keeps the order of equal elements
CreatedRank(id) ==
  1 + Cardinality({j \in DOMAIN transactions :
                     \/ createdAt[j] > createdAt[id]
                     \/ createdAt[j] = createdAt[id] /\ j < id})

\* getAllTransactions() (TransactionService.ts lines 287-291), as ids
getAllTransactions ==
  [k \in 1..Cardinality(DOMAIN transactions) |->
     CHOOSE id \in DOMAIN transactions : CreatedRank(id) = k]

\* the transactions whatever their status
getTransactionsByStatus_All(status) == getAllTransactions

\* getTransactionsByStatus(status) (TransactionService.ts lines 296-298)
getTransactionsByStatus(status) ==
  SelectSeq(getAllTransactions, LAMBDA id : transactions[id].status = status)

\* Array.prototype.slice(0, end): a negative end counts from the end of the
\* array
slice(s, end) ==
  SubSeq(s, 1, IF end < 0 THEN (IF Len(s) + end > 0 THEN Len(s) + end ELSE 0)
               ELSE IF end > Len(s) THEN Len(s) ELSE end)

\* processPendingTransactions: limit when the caller gives none (line 206)
DefaultLimit == 50

\* processPendingTransactions(limit) (lines 206-210) up to the loop of
\* batchProcess
processPendingTransactions(limit) ==
  \E toProcess \in {slice(getTransactionsByStatus("PENDING"), limit)} :
    /\ batch.pc # "running"
    /\ lastResult = NoResult
    /\ batchCalls' = batchCalls + 1
    /\ batch' = IF batchSizeError(toProcess) # NoError
                  THEN [StartedBatch("batchProcess", toProcess) EXCEPT
                          !.pc = "done", !.error = batchSizeError(toProcess),
                          !.limit = <<limit>>]
                  ELSE [StartedBatch("batchProcess", toProcess) EXCEPT !.limit = <<limit>>]
    /\ UNCHANGED <<maxBatchSize, txVars, ruleVars, evalVars, hookVars, clockVars>>

\* ------------------------------------------------------------------------
\* The lifecycle manager under arbitrary interleaving of its callers
\* ------------------------------------------------------------------------

\* the requests the callers of the lifecycle specification make: one that the
\* default rules allow (100), one that they deny (0.001), one that is invalid
LifecycleRequests ==
  { [type |-> "PAYMENT", amount |-> 100000, currency |-> "usd", sourceAccount |-> "ACC-001"],
    [type |-> "PAYMENT", amount |-> 1, currency |-> "USD", sourceAccount |-> "ACC-001",
     priority |-> "URGENT"],
    [type |-> "PAYMENT", amount |-> 0, currency |-> "USD", sourceAccount |-> "ACC-001"] }

Init ==
  /\ transactions = <<>>
  /\ statusHistory = <<>>
  /\ calls = [c \in Slots |-> IdleCall]
  /\ lastResult = NoResult
  /\ rules = initializeDefaultRules(0)
  /\ ruleUuids = Len(DEFAULT_RULES)
  /\ ruleCalls = 0
  /\ config = defaultConfig
  /\ evalInput = NoRequest
  /\ evalOutput = NoRequest
  /\ maxBatchSize = DefaultMaxBatchSize
  /\ batch = IdleBatch
  /\ batchCalls = 0
  /\ webhooks = <<>>
  /\ hookUuids = 0
  /\ hookCalls = 0
  /\ webhookLogs = {}
  /\ deliveries = {}
  /\ triggered = <<>>
  /\ posts = {}
  /\ now = 0
  /\ createdAt = <<>>

\* the caller takes the outcome of the call that settled; nothing else runs in
\* between (the outcome is handed over in the continuation of the caller)
TakeResult ==
  /\ lastResult # NoResult
  /\ lastResult' = NoResult
  /\ UNCHANGED <<transactions, statusHistory, calls, ruleVars, clockVars, evalVars, batchVars, hookVars>>

\* a suspended call resumes
Resume(c) ==
  \/ processEvaluate(c)
  \/ processDenied(c)
  \/ processDelay(c)
  \/ processOutcome(c)
  \/ processCompleted(c)
  \/ processFailed(c)
  \/ retryProcess(c)

\* what cancelTransaction and refundTransaction throw, NoError when they go through
cancelThrows(id) ==
  IF cancelError(id) # NoError THEN cancelError(id) ELSE updateStatusError(id, "CANCELLED")

refundThrows(id) ==
  IF refundError(id) # NoError THEN refundError(id) ELSE updateStatusError(id, "REFUNDED")

\* a caller calls one of the operations the controllers and the batch service use;
\* max bounds the transitions recorded; isolated: no call on a transaction
\* starts while another call is in flight on it
ApiCall(max, isolated) ==
  \/ \E request \in LifecycleRequests :
       /\ createError(request) = NoError => NewId \in Ids
       /\ createTransaction(request)
  \/ \E c \in Slots, id \in Ids :
       /\ isolated => ~Busy(id)
       /\ Admit(updateStatusError(id, "VALIDATING"), 3, max)
       /\ processTransaction(c, id)
  \/ \E c \in Slots, id \in Ids :
       /\ isolated => ~Busy(id)
       /\ Admit(retryError(id), 4, max)
       /\ retryTransaction(c, id)
  \/ \E id \in Ids :
       /\ isolated => ~Busy(id)
       /\ Admit(cancelThrows(id), 1, max)
       /\ cancelTransaction(id)
  \/ \E id \in Ids :
       /\ isolated => ~Busy(id)
       /\ Admit(refundThrows(id), 1, max)
       /\ refundTransaction(id)

\* a caller calls updateStatus itself
DirectCall(max, isolated) ==
  \E id \in Ids, newStatus \in TransactionStatus :
    /\ isolated => ~Busy(id)
    /\ Admit(updateStatusError(id, newStatus), 1, max)
    /\ updateStatusError(id, newStatus) = NoError => Direct(DOMAIN statusHistory) < MaxDirect
    /\ directUpdateStatus(id, newStatus)

\* every caller, interleaved at will
Next ==
  \/ lastResult = NoResult /\ ApiCall(MaxTransitions, FALSE)
  \/ lastResult = NoResult /\ DirectCall(MaxTransitions, FALSE)
  \/ lastResult = NoResult /\ \E c \in Slots : Resume(c)
  \/ TakeResult

\* the callers use the five operations only
NextApi ==
  \/ lastResult = NoResult /\ ApiCall(MaxApiTransitions, FALSE)
  \/ lastResult = NoResult /\ \E c \in Slots : Resume(c)
  \/ TakeResult

\* no two calls on one transaction overlap
NextIsolated ==
  \/ lastResult = NoResult /\ ApiCall(MaxTransitions, TRUE)
  \/ lastResult = NoResult /\ DirectCall(MaxTransitions, TRUE)
  \/ lastResult = NoResult /\ \E c \in Slots : Resume(c)
  \/ TakeResult

\* the callers use the five operations only, and no two calls on one
\* transaction overlap
NextApiIsolated ==
  \/ lastResult = NoResult /\ ApiCall(MaxApiTransitions, TRUE)
  \/ lastResult = NoResult /\ \E c \in Slots : Resume(c)
  \/ TakeResult

SpecApiIsolated == Init /\ [][NextApiIsolated]_vars

Spec == Init /\ [][Next]_vars

SpecApi == Init /\ [][NextApi]_vars

SpecIsolated == Init /\ [][NextIsolated]_vars

\* the event loop runs every continuation that is due: a suspended call stays
\* resumable until it is resumed, whatever other calls are made meanwhile
FairIsolated ==
  /\ SpecIsolated
  /\ \A c \in Slots : WF_vars(Resume(c))
  /\ WF_vars(TakeResult)

\* ------------------------------------------------------------------------
\* createTransaction alone, on a wide set of requests
\* ------------------------------------------------------------------------

\* the requests: every property but the type may be absent
CreateRequests ==
  { t @@ a @@ c @@ s @@ p :
      t \in [type : {"PAYMENT"}],
      a \in {<<>>} \cup [amount : {-100000, 0, 100000}],
      c \in {<<>>} \cup [currency : {"", "usd", "USD", "Jpy"}],
      s \in {<<>>} \cup [sourceAccount : {"", "ACC-001"}],
      p \in {<<>>} \cup [priority : {"URGENT"}] }

NextCreate ==
  \/ /\ lastResult = NoResult
     /\ \E request \in CreateRequests :
          /\ createError(request) = NoError => NewId <= MaxCreated
          /\ createTransaction(request)
  \/ TakeResult

SpecCreate == Init /\ [][NextCreate]_vars

\* ------------------------------------------------------------------------
\* evaluateTransaction alone, on a wide set of transactions
\* ------------------------------------------------------------------------

\* amounts around the thresholds of the default rules, in thousandths
EvalAmounts ==
  {-100000, 0, 1, 9, 10, 11, 100000, 9999999, 10000000, 10000001, 15000000,
   99999999, 100000000, 100000001, 150000000}

EvalTransactions ==
  [id : {1}, type : {"PAYMENT", "REFUND"},
   status : {"VALIDATING"}, priority : {"NORMAL", "LOW"},
   amount : EvalAmounts, currency : {"USD", "EUR", "GBP", "JPY", "usd"},
   sourceAccount : {"ACC-001"}, retryCount : {0}, maxRetries : {3},
   errorCode : {Undefined}, errorMessage : {<<>>}, completedAt : {FALSE}]

\* rulesEngine.evaluateTransaction(transaction), called from outside
Evaluate(transaction) ==
  /\ evalInput' = transaction
  /\ evalOutput' = evaluateTransaction(rules, config, transaction)
  /\ UNCHANGED <<txVars, ruleVars, clockVars, batchVars, hookVars>>

NextEval == \E transaction \in EvalTransactions : Evaluate(transaction)

SpecEval == Init /\ [][NextEval]_vars

\* ------------------------------------------------------------------------
\* RulesEngine: the rule set and the configuration change between evaluations
\* ------------------------------------------------------------------------

\* the position of rule id in the map, 0 when it is not there
RuleIndex(rs, id) ==
  IF \E i \in 1..Len(rs) : rs[i].id = id
    THEN CHOOSE i \in 1..Len(rs) : rs[i].id = id
    ELSE 0

\* a call that changes the rules or the configuration: the verdict of an
\* earlier evaluation is not the verdict of the call any more
RuleCall ==
  /\ ruleCalls < MaxRuleCalls
  /\ ruleCalls' = ruleCalls + 1
  /\ evalInput' = NoRequest
  /\ evalOutput' = NoRequest
  /\ UNCHANGED <<txVars, batchVars, hookVars, clockVars>>

\* addRule(rule): a fresh id, inserted last
addRule(rule) ==
  /\ RuleCall
  /\ rules' = Append(rules, [id |-> ruleUuids + 1] @@ rule)
  /\ ruleUuids' = ruleUuids + 1
  /\ UNCHANGED config

\* updateRule(id, updates): the rule keeps its place in the map; null when unknown
updateRule(id, updates) ==
  /\ RuleCall
  /\ rules' = IF RuleIndex(rules, id) = 0 THEN rules
              ELSE [rules EXCEPT ![RuleIndex(rules, id)] = updates @@ @]
  /\ UNCHANGED <<config, ruleUuids>>

\* deleteRule(id)
deleteRule(id) ==
  /\ RuleCall
  /\ rules' = SelectSeq(rules, LAMBDA r : r.id # id)
  /\ UNCHANGED <<config, ruleUuids>>

\* setRuleEnabled(id, enabled)
setRuleEnabled(id, enabled) == updateRule(id, [enabled |-> enabled])

\* updateConfig(config)
updateConfig(updates) ==
  /\ RuleCall
  /\ config' = updates @@ config
  /\ UNCHANGED <<rules, ruleUuids>>

\* resetToDefaults: the map is cleared and the templates get new ids
resetToDefaults ==
  /\ RuleCall
  /\ rules' = initializeDefaultRules(ruleUuids)
  /\ ruleUuids' = ruleUuids + Len(DEFAULT_RULES)
  /\ UNCHANGED config

\* rules a caller adds: a DENY rule and a REQUIRE_APPROVAL rule that tie with
\* default rules on priority, and a disabled rule that would deny everything
AddedRules ==
  { [name |-> "Block EUR", description |-> "No EUR",
     enabled |-> TRUE, priority |-> 0,
     condition |-> [type |-> "CURRENCY", operator |-> "EQ",
                    value |-> StringValue("EUR"), field |-> "currency"],
     action |-> "DENY", severity |-> "ERROR"],
    [name |-> "Approve Large", description |-> "Approval from $100",
     enabled |-> TRUE, priority |-> 1,
     condition |-> [type |-> "AMOUNT_THRESHOLD", operator |-> "GTE",
                    value |-> NumberValue(100000), field |-> "amount"],
     action |-> "REQUIRE_APPROVAL", severity |-> "WARNING"],
    [name |-> "Block All", description |-> "Maintenance",
     enabled |-> FALSE, priority |-> 0,
     condition |-> [type |-> "AMOUNT_THRESHOLD", operator |-> "GT",
                    value |-> NumberValue(0), field |-> "amount"],
     action |-> "DENY", severity |-> "CRITICAL"] }

\* the updates a caller makes
RuleUpdates == {[priority |-> 0], [action |-> "DENY"]}

\* the transactions evaluated between the changes
RuleEvalTransactions ==
  [id : {1}, type : {"PAYMENT"}, status : {"VALIDATING"}, priority : {"NORMAL"},
   amount : {1, 100000, 15000000, 150000000}, currency : {"USD", "EUR"},
   sourceAccount : {"ACC-001"}, retryCount : {0}, maxRetries : {3},
   errorCode : {Undefined}, errorMessage : {<<>>}, completedAt : {FALSE}]

NextRules ==
  \/ \E rule \in AddedRules : addRule(rule)
  \/ \E id \in 1..ruleUuids, updates \in RuleUpdates : updateRule(id, updates)
  \/ \E id \in 1..ruleUuids : deleteRule(id)
  \/ \E id \in 1..ruleUuids, enabled \in BOOLEAN : setRuleEnabled(id, enabled)
  \/ \E stop \in BOOLEAN : updateConfig([stopOnFirstDeny |-> stop])
  \/ resetToDefaults
  \/ evalInput = NoRequest /\ \E transaction \in RuleEvalTransactions : Evaluate(transaction)

SpecRules == Init /\ [][NextRules]_vars

\* ------------------------------------------------------------------------
\* The batch operations, one call at a time, with one subscriber
\* ------------------------------------------------------------------------

\* the requests handed to batchCreate: one the default rules allow, one they
\* deny, one with amount 0 and one without a source account
Payment == [type |-> "PAYMENT", amount |-> 100000, currency |-> "usd", sourceAccount |-> "ACC-001"]

Tiny == [type |-> "PAYMENT", amount |-> 1, currency |-> "USD", sourceAccount |-> "ACC-001"]

NoAmount == [type |-> "PAYMENT", amount |-> 0, currency |-> "USD", sourceAccount |-> "ACC-001"]

NoSource == [type |-> "PAYMENT", amount |-> 100000, currency |-> "USD"]

\* the lists handed to batchCreate
BatchRequestLists ==
  { <<>>, <<Payment>>, <<NoAmount>>, <<Tiny, NoSource>>,
    <<Payment, NoAmount, Payment>>, <<NoAmount, Payment, NoSource>> }

\* the lists handed to the other batch operations: known and unknown ids, and
\* one id as often as it takes to use up its retries
BatchIdLists ==
  { <<>>, <<1>>, <<2, 4, 1>>, <<1, 1, 1, 1>> }

\* the sizes handed to setMaxBatchSize
BatchSizes == {0, 1, MaxBatchSizeLimit, MaxBatchSizeLimit + 1}

\* the subscriber of the batch specification
BatchWebhook ==
  [name |-> "ledger", url |-> "http://ledger/hook", secret |-> "s3cret",
   events |-> {WEBHOOK_EVENTS.TRANSACTION_CREATED, WEBHOOK_EVENTS.TRANSACTION_COMPLETED,
               WEBHOOK_EVENTS.TRANSACTION_FAILED, WEBHOOK_EVENTS.TRANSACTION_CANCELLED}]

\* batchCreate is between its first createTransaction and the continuation of
\* its last: this runs without a return to the event loop
InCreateLoop ==
  /\ batch.pc = "running"
  /\ batch.op = "batchCreate"
  /\ batch.i <= Len(batch.input)

\* the event loop may run another task
Loop == lastResult = NoResult /\ ~InCreateLoop

\* the timers of the retries do not fire while the batch calls are watched
\* and the first transaction may have been created by a single call
NextBatch ==
  \/ Loop /\ hookUuids < 1 /\ createWebhook(BatchWebhook)
  \/ Loop /\ batch.pc # "running" /\ transactions = <<>> /\ createTransaction(Payment)
  \/ batch.pc # "running" /\ \E size \in BatchSizes : setMaxBatchSize(size)
  \/ batch.pc # "running" /\ TakeResult
  \/ batchCalls < MaxBatchCalls
       /\ \E requests \in BatchRequestLists : batchCreate(requests)
  \/ batchCalls < MaxBatchCalls
       /\ \E transactionIds \in BatchIdLists : batchProcess(transactionIds)
  \/ batchCalls < MaxBatchCalls
       /\ \E transactionIds \in BatchIdLists : batchCancel(transactionIds)
  \/ batchCalls < MaxBatchCalls
       /\ \E transactionIds \in BatchIdLists : batchRetry(transactionIds)
  \/ BatchItem
  \/ lastResult = NoResult /\ \E c \in Slots : Resume(c)
  \/ BatchTake
  \/ BatchReturn
  \/ Loop /\ \E delivery \in deliveries, outcome \in Outcomes : Respond(delivery, outcome)

SpecBatch == Init /\ [][NextBatch]_vars

\* ------------------------------------------------------------------------
\* The webhook dispatcher: subscribers come, change and go while events are
\* triggered and delivered
\* ------------------------------------------------------------------------

\* the data handed to createWebhook, call after call: a subscriber of two
\* events with a secret, then a subscriber of one event without
HookData ==
  << [name |-> "audit", url |-> "http://audit/hook", secret |-> "s3cret",
      events |-> {WEBHOOK_EVENTS.TRANSACTION_COMPLETED, WEBHOOK_EVENTS.TRANSACTION_FAILED}],
     [name |-> "mail", url |-> "http://mail/hook",
      events |-> {WEBHOOK_EVENTS.TRANSACTION_COMPLETED}] >>

\* the updates handed to updateWebhook
HookUpdates ==
  { [isActive |-> FALSE], [maxRetries |-> 0],
    [maxRetries |-> 1, secret |-> "", url |-> "http://new/hook",
     events |-> {WEBHOOK_EVENTS.TRANSACTION_FAILED}] }

\* the events handed to triggerEvent
HookEvents == {WEBHOOK_EVENTS.TRANSACTION_COMPLETED, WEBHOOK_EVENTS.TRANSACTION_FAILED}

NextWebhook ==
  \/ hookUuids < Len(HookData) /\ createWebhook(HookData[hookUuids + 1])
  \/ hookCalls < MaxHookCalls
       /\ \E id \in 1..hookUuids, updates \in HookUpdates : updateWebhook(id, updates)
  \/ hookCalls < MaxHookCalls /\ \E id \in 1..hookUuids : deleteWebhook(id)
  \/ Len(triggered) < MaxTriggers
       /\ \E event \in HookEvents : triggerEvent(event, [transaction |-> Len(triggered) + 1])
  \/ \E delivery \in deliveries, outcome \in Outcomes : Respond(delivery, outcome)
  \/ \E delivery \in deliveries : TimerFires(delivery)

SpecWebhook == Init /\ [][NextWebhook]_vars

\* axios.post settles (its timeout is 10 seconds) and a timer that was set fires
FairWebhook ==
  /\ SpecWebhook
  /\ WF_vars(\E delivery \in deliveries, outcome \in Outcomes : Respond(delivery, outcome))
  /\ WF_vars(\E delivery \in deliveries : TimerFires(delivery))

\* ------------------------------------------------------------------------
\* The five lifecycle operations called one by one (not through a batch),
\* with a subscriber of every transaction event
\* ------------------------------------------------------------------------

\* the subscriber of the lifecycle events
LifecycleWebhook ==
  [name |-> "ledger", url |-> "http://ledger/hook",
   events |-> {WEBHOOK_EVENTS.TRANSACTION_CREATED, WEBHOOK_EVENTS.TRANSACTION_PROCESSING,
               WEBHOOK_EVENTS.TRANSACTION_COMPLETED, WEBHOOK_EVENTS.TRANSACTION_FAILED,
               WEBHOOK_EVENTS.TRANSACTION_CANCELLED, WEBHOOK_EVENTS.TRANSACTION_REFUNDED}]

NextNotify ==
  \/ lastResult = NoResult /\ hookUuids < 1 /\ createWebhook(LifecycleWebhook)
  \/ lastResult = NoResult /\ ApiCall(MaxApiTransitions, FALSE)
  \/ lastResult = NoResult /\ \E c \in Slots : Resume(c)
  \/ TakeResult

SpecNotify == Init /\ [][NextNotify]_vars

\* ------------------------------------------------------------------------
\* processPendingTransactions over transactions created at the same and at
\* different milliseconds, some of them cancelled
\* ------------------------------------------------------------------------

\* the clock reads at most this
MaxClock == 2

\* transactions that may be created where processPendingTransactions is called
MaxPending == 3

\* the limits handed to processPendingTransactions
PendingLimits == {-1, 0, 1, 2, DefaultLimit}

\* a millisecond passes
Tick ==
  /\ now' = now + 1
  /\ UNCHANGED <<createdAt, txVars, ruleVars, evalVars, batchVars, hookVars>>

\* single calls are made while no batch call runs; the clock is watched
\* between the first createTransaction and the last, where its reading is used
NextPending ==
  \/ Loop /\ now < MaxClock /\ batch.pc = "idle" /\ NewId \in 2..MaxPending /\ Tick
  \/ Loop /\ batch.pc # "running" /\ NewId <= MaxPending /\ createTransaction(Payment)
  \/ Loop /\ batch.pc # "running"
       /\ \E id \in DOMAIN transactions :
            transactions[id].status = "PENDING" /\ cancelTransaction(id)
  \/ batch.pc # "running" /\ TakeResult
  \/ batchCalls < MaxBatchCalls
       /\ \E limit \in PendingLimits : processPendingTransactions(limit)
  \/ BatchItem
  \/ lastResult = NoResult /\ \E c \in Slots : Resume(c)
  \/ BatchTake
  \/ BatchReturn

SpecPending == Init /\ [][NextPending]_vars

\* ------------------------------------------------------------------------
\* The two ways into the store: POST /api/transactions and
\* POST /api/batch/transactions
\* ------------------------------------------------------------------------

\* Object.values(TransactionType)
TransactionType == {"PAYMENT", "TRANSFER", "WITHDRAWAL", "DEPOSIT", "REFUND"}

\* String.prototype.length on the currencies the model uses
length(s) ==
  CASE s = "" -> 0
    [] s \in {"us", "US"} -> 2
    [] s \in {"usd", "USD", "eur", "EUR", "Jpy", "JPY"} -> 3
    [] s = "EURO" -> 4

\* a string property of the body is falsy (!x): absent or the empty string
Falsy(body, property) ==
  \/ property \notin DOMAIN body
  \/ body[property] = ""

\* the amount of the body is falsy: absent or 0
NoAmountIn(body) ==
  \/ "amount" \notin DOMAIN body
  \/ body.amount = 0

\* validateTransactionRequest (middleware, lines 7-52): the errors for type,
\* amount, currency and sourceAccount; no route uses it
validateTransactionRequest(body) ==
  (IF Falsy(body, "type") THEN {"type is required"}
   ELSE IF body.type \notin TransactionType THEN {"Invalid type"} ELSE {})
  \cup (IF "amount" \notin DOMAIN body THEN {"amount is required"}
        ELSE IF body.amount <= 0 THEN {"amount must be a positive number"} ELSE {})
  \cup (IF Falsy(body, "currency") THEN {"currency is required"}
        ELSE IF length(body.currency) # 3
          THEN {"currency must be a 3-letter code (e.g., USD, EUR)"} ELSE {})
  \cup (IF Falsy(body, "sourceAccount") THEN {"sourceAccount is required"} ELSE {})

\* the response 400 of a controller: the service is not called
BadRequest(op, error, request) ==
  /\ lastResult' = Result(op, 0, error, request, "")
  /\ UNCHANGED <<transactions, statusHistory, calls, ruleVars, clockVars, evalVars,
                 batchVars, hookVars>>

\* TransactionController.createTransaction (lines 23-46): the type is checked,
\* then the service is called
PostTransaction(body) ==
  IF Falsy(body, "type") \/ body.type \notin TransactionType
    THEN BadRequest("create", <<"Invalid transaction type">>, body)
    ELSE createTransaction(body)

\* BatchController.batchCreate: the errors of its validation (lines 166-180)
BatchCreateErrors(list) ==
  UNION { (IF Falsy(list[i], "type") \/ list[i].type \notin TransactionType
             THEN {<<"Transaction ", i - 1, ": invalid type">>} ELSE {})
          \cup (IF NoAmountIn(list[i]) \/ list[i].amount <= 0
                  THEN {<<"Transaction ", i - 1, ": invalid amount">>} ELSE {})
          \cup (IF Falsy(list[i], "currency")
                  THEN {<<"Transaction ", i - 1, ": currency required">>} ELSE {})
          \cup (IF Falsy(list[i], "sourceAccount")
                  THEN {<<"Transaction ", i - 1, ": sourceAccount required">>} ELSE {})
          : i \in 1..Len(list) }

\* BatchController.batchCreate (lines 146-201) up to the first
\* createTransaction of the service
PostBatchTransactions(list) ==
  IF list = <<>>
    THEN batch.pc # "running"
         /\ BadRequest("batchCreate", <<"transactions array cannot be empty">>, NoRequest)
  ELSE IF BatchCreateErrors(list) # {}
    THEN batch.pc # "running"
         /\ BadRequest("batchCreate", <<"Validation failed">>, NoRequest)
  ELSE batchCreate(list)

\* the bodies posted: type, amount, currency and sourceAccount good or bad
PostedBodies ==
  { t @@ a @@ c @@ [sourceAccount |-> "ACC-001"] :
      t \in [type : {"PAYMENT", "BOGUS"}],
      a \in {<<>>} \cup [amount : {-100000, 0, 100000}],
      c \in {<<>>} \cup [currency : {"", "us", "usd", "EURO"}] }

\* the lists posted: of one and of two bodies, and the empty list
PostedLists ==
  {<<>>} \cup {<<b>> : b \in PostedBodies}
    \cup {<<b, [type |-> "PAYMENT", amount |-> 100000, currency |-> "usd",
                sourceAccount |-> "ACC-001"]>> : b \in PostedBodies}

NextStore ==
  \/ Loop /\ batch.pc # "running"
       /\ \E body \in PostedBodies :
            /\ NewId <= MaxCreated
            /\ PostTransaction(body)
  \/ lastResult = NoResult /\ batchCalls < MaxBatchCalls /\ batch.pc # "running"
       /\ NewId <= MaxCreated
       /\ \E list \in PostedLists : PostBatchTransactions(list)
  \/ batch.pc # "running" /\ TakeResult
  \/ BatchItem
  \/ BatchTake
  \/ BatchReturn

SpecStore == Init /\ [][NextStore]_vars

\* ------------------------------------------------------------------------
\* evaluateCondition on condition trees: a caller adds one rule that carries
\* the condition and evaluates a transaction
\* ------------------------------------------------------------------------

\* leaves: comparisons that apply, comparisons on a field that is not a number,
\* IN / NOT_IN with and without a list, an operator the switch does not know, a
\* leaf without a field name and one with an empty field name
ConditionLeaves ==
  { [type |-> "AMOUNT_THRESHOLD", operator |-> "GT", field |-> "amount",
     value |-> NumberValue(100000)],
    [type |-> "AMOUNT_THRESHOLD", operator |-> "LTE", field |-> "amount",
     value |-> StringValue("0")],
    [type |-> "CURRENCY", operator |-> "GT", field |-> "currency",
     value |-> NumberValue(0)],
    [type |-> "CURRENCY", operator |-> "GTE", field |-> "currency",
     value |-> StringValue("EUR")],
    [type |-> "CURRENCY", operator |-> "LT", field |-> "currency",
     value |-> StringValue("USD")],
    [type |-> "CURRENCY", operator |-> "LTE", field |-> "errorMessage",
     value |-> NumberValue(100000)],
    [type |-> "CURRENCY", operator |-> "EQ", field |-> "currency",
     value |-> StringValue("USD")],
    [type |-> "CURRENCY", operator |-> "IN", field |-> "currency",
     value |-> ArrayValue("string", <<"USD", "GBP">>)],
    [type |-> "CURRENCY", operator |-> "IN", field |-> "currency",
     value |-> StringValue("USD")],
    [type |-> "CURRENCY", operator |-> "NOT_IN", field |-> "currency",
     value |-> ArrayValue("string", <<"USD", "GBP">>)],
    [type |-> "CURRENCY", operator |-> "NOT_IN", field |-> "currency",
     value |-> StringValue("GBP")],
    [type |-> "CUSTOM", operator |-> "CONTAINS", field |-> "currency",
     value |-> StringValue("USD")],
    [type |-> "CUSTOM", operator |-> "EQ", value |-> StringValue("USD")],
    [type |-> "CUSTOM", operator |-> "NEQ", field |-> "",
     value |-> StringValue("USD")] }

\* a composite node
Composite(operator, children) ==
  [type |-> "CUSTOM", operator |-> operator, children |-> children]

\* the lists of at most two leaves
LeafLists ==
  {<<>>} \cup {<<a>> : a \in ConditionLeaves}
         \cup {<<a, b>> : a \in ConditionLeaves, b \in ConditionLeaves}

\* composites of one level
FlatComposites ==
  {Composite(operator, children) : operator \in {"AND", "OR"}, children \in LeafLists}

\* the condition trees: leaves, composites of leaves, and composites of
\* composites, the empty ones included
Conditions ==
  ConditionLeaves \cup FlatComposites
    \cup {Composite(operator, <<Composite(inner, <<>>), leaf>>) :
            operator \in {"AND", "OR"}, inner \in {"AND", "OR"},
            leaf \in ConditionLeaves}
    \cup {Composite(operator, <<Composite("OR", <<a, b>>), Composite("AND", <<>>)>>) :
            operator \in {"AND", "OR"}, a \in ConditionLeaves, b \in ConditionLeaves}

\* the rule that carries the condition: a DENY rule ahead of the default rules
ProbeRule(condition) ==
  [name |-> "Probe", description |-> "Condition under test",
   enabled |-> TRUE, priority |-> -1,
   condition |-> condition, action |-> "DENY", severity |-> "ERROR"]

ConditionTransactions ==
  [id : {1}, type : {"PAYMENT"}, status : {"VALIDATING"}, priority : {"NORMAL"},
   amount : {0, 150000}, currency : {"USD", "EUR"},
   sourceAccount : {"ACC-001"}, retryCount : {0}, maxRetries : {3},
   errorCode : {Undefined}, errorMessage : {<<>>}, completedAt : {FALSE}]

NextCondition ==
  \/ /\ ruleUuids = Len(DEFAULT_RULES)
     /\ \E condition \in Conditions : addRule(ProbeRule(condition))
  \/ /\ evalInput = NoRequest
     /\ \E transaction \in ConditionTransactions : Evaluate(transaction)

SpecCondition == Init /\ [][NextCondition]_vars

\* ------------------------------------------------------------------------
\* WebhookController.testWebhook: the connectivity test of a webhook
\* ------------------------------------------------------------------------

\* the event of the connectivity test; it is not one of WEBHOOK_EVENTS
TestPing == "test.ping"

\* testWebhook (lines 219-246): 404 for an unknown id; otherwise
\* triggerEvent('test.ping', ...) with the id in the payload, which selects
\* the webhooks by their subscriptions
testWebhook(id) ==
  /\ IF id \in DOMAIN webhooks
       THEN TriggerEvent(TestPing,
                         [message |-> "This is a test webhook", webhookId |-> id,
                          timestamp |-> Instant(Len(triggered) + 1, 0)],
                         "testWebhook")
       ELSE UNCHANGED <<triggered, deliveries>>
  /\ hookCalls' = hookCalls + 1
  /\ UNCHANGED <<webhooks, hookUuids, webhookLogs, posts>>
  /\ UNCHANGED <<txVars, ruleVars, clockVars, evalVars, batchVars>>

\* the webhooks of the test: one made through POST /api/webhooks, which takes
\* the events of WEBHOOK_EVENTS only, and one made with the service, which
\* takes any list of events
TestHookData ==
  << [name |-> "ledger", url |-> "http://ledger/hook", secret |-> "s3cret",
      events |-> {WEBHOOK_EVENTS.TRANSACTION_COMPLETED, WEBHOOK_EVENTS.TRANSACTION_FAILED}],
     [name |-> "probe", url |-> "http://probe/hook",
      events |-> {TestPing}] >>

\* the updates handed to updateWebhook, which takes any list of events
TestHookUpdates == {[isActive |-> FALSE], [events |-> {TestPing}]}

NextTest ==
  \/ hookUuids < Len(TestHookData) /\ createWebhook(TestHookData[hookUuids + 1])
  \/ hookCalls < MaxHookCalls + 1
       /\ \E id \in 1..hookUuids, updates \in TestHookUpdates : updateWebhook(id, updates)
  \/ hookCalls < MaxHookCalls + 1 /\ \E id \in 1..hookUuids : deleteWebhook(id)
  \/ hookCalls < MaxHookCalls + 1 /\ Len(triggered) < MaxTriggers
       /\ \E id \in 1..hookUuids : testWebhook(id)
  \/ \E delivery \in deliveries, outcome \in Outcomes : Respond(delivery, outcome)
  \/ \E delivery \in deliveries : TimerFires(delivery)

SpecTest == Init /\ [][NextTest]_vars

\* ------------------------------------------------------------------------
\* processTransaction called again while a call is in flight
\* ------------------------------------------------------------------------

\* the callers create transactions and call processTransaction on them, also
\* while an earlier call on the same transaction is suspended
NextRace ==
  \/ /\ lastResult = NoResult
     /\ \E request \in LifecycleRequests :
          /\ createError(request) = NoError => NewId <= MaxCreated
          /\ createTransaction(request)
  \/ /\ lastResult = NoResult
     /\ \E c \in Slots, id \in 1..MaxCreated :
          /\ Admit(updateStatusError(id, "VALIDATING"), 3, MaxApiTransitions)
          /\ processTransaction(c, id)
  \/ lastResult = NoResult /\ \E c \in Slots : Resume(c)
  \/ TakeResult

SpecRace == Init /\ [][NextRace]_vars

\* ------------------------------------------------------------------------
\* BatchService with the webhooks kept in MongoDB: WebhookModel.find() may
\* reject, and with it getAllWebhooks and triggerEvent
\* ------------------------------------------------------------------------

\* the message of the error WebhookModel.find() rejects with
StoreError == <<"connection to the webhook store lost">>

\* the continuation of the awaited call when the call returned a transaction
\* and the awaited triggerEvent rejects (lines 68-81, 113-133, 163-167): the
\* transaction has been pushed, and the catch pushes the entry of the item;
\* no webhook was selected
BatchTakeStoreFails ==
  /\ batch.pc = "running"
  /\ batch.op \in {"batchCreate", "batchProcess", "batchCancel"}
  /\ lastResult # NoResult
  /\ lastResult.error = NoError
  /\ lastResult' = NoResult
  /\ batch' = [batch EXCEPT
                 !.i = @ + 1,
                 !.done = Append(@, lastResult.id),
                 !.failed = Append(@, [FailedEntry EXCEPT !.error = StoreError])]
  /\ UNCHANGED <<transactions, statusHistory, calls, ruleVars, clockVars, evalVars,
                 maxBatchSize, batchCalls, hookVars>>

\* the lists handed to batchCreate and to the other batch operations
MongoRequestLists == { <<Payment>>, <<NoAmount, Payment>> }

MongoIdLists == { <<1>>, <<2, 1>> }

\* no webhook is registered: a triggerEvent that does not reject returns at once
NextMongo ==
  \/ Loop /\ batch.pc # "running" /\ transactions = <<>> /\ createTransaction(Payment)
  \/ batch.pc # "running" /\ TakeResult
  \/ batchCalls < MaxBatchCalls
       /\ \E requests \in MongoRequestLists : batchCreate(requests)
  \/ batchCalls < MaxBatchCalls
       /\ \E transactionIds \in MongoIdLists : batchProcess(transactionIds)
  \/ batchCalls < MaxBatchCalls
       /\ \E transactionIds \in MongoIdLists : batchCancel(transactionIds)
  \/ BatchItem
  \/ lastResult = NoResult /\ \E c \in Slots : Resume(c)
  \/ BatchTake
  \/ BatchTakeStoreFails
  \/ BatchReturn

SpecMongo == Init /\ [][NextMongo]_vars

\* ------------------------------------------------------------------------
\* processPendingTransactions against the maximum batch size
\* ------------------------------------------------------------------------

\* the sizes handed to setMaxBatchSize and the limits handed to
\* processPendingTransactions: below, at and above the number of PENDING
\* transactions
SmallBatchSizes == {1, 2}

LargeLimits == {1, 2, 3, DefaultLimit}

\* the transactions are created within one millisecond, so that the list of
\* the PENDING ones is in creation order
NextPendingLimit ==
  \/ Loop /\ batch.pc # "running" /\ NewId <= MaxPending /\ createTransaction(Payment)
  \/ batch.pc # "running" /\ \E size \in SmallBatchSizes : setMaxBatchSize(size)
  \/ batch.pc # "running" /\ TakeResult
  \/ batchCalls < MaxBatchCalls
       /\ \E limit \in LargeLimits : processPendingTransactions(limit)
  \/ BatchItem
  \/ lastResult = NoResult /\ \E c \in Slots : Resume(c)
  \/ BatchTake
  \/ BatchReturn

SpecPendingLimit == Init /\ [][NextPendingLimit]_vars

\* ------------------------------------------------------------------------
\* Claims
\* ------------------------------------------------------------------------

\* the allowed-transition table as the specification states it
AllowedTable ==
  { <<"PENDING", "VALIDATING">>, <<"PENDING", "CANCELLED">>,
    <<"VALIDATING", "PROCESSING">>, <<"VALIDATING", "FAILED">>,
    <<"VALIDATING", "CANCELLED">>,
    <<"PROCESSING", "COMPLETED">>, <<"PROCESSING", "FAILED">>,
    <<"COMPLETED", "REFUNDED">>,
    <<"FAILED", "PENDING">> }

\* in this step a caller called updateStatus(id, newStatus) itself
DirectStep(id, newStatus) ==
  /\ lastResult = NoResult
  /\ lastResult'.op = "updateStatus"
  /\ lastResult'.id = id
  /\ lastResult'.arg = newStatus

C1_Step ==
  /\ \A id \in DOMAIN transactions :
       /\ id \in DOMAIN transactions'
       /\ transactions'[id].status # transactions[id].status
            => <<transactions[id].status, transactions'[id].status>> \in AllowedTable
  /\ \A id \in DOMAIN transactions, newStatus \in TransactionStatus :
       DirectStep(id, newStatus) /\ <<transactions[id].status, newStatus>> \notin AllowedTable
         => /\ lastResult'.error = <<"Invalid status transition from ",
                                     transactions[id].status, " to ", newStatus>>
            /\ transactions' = transactions
            /\ statusHistory' = statusHistory

\* C1: whatever the callers do and however their calls interleave, every
\* status change of a transaction is a pair of the allowed-transition table,
\* and an updateStatus call whose target is not allowed from the current status
\* throws the invalid-transition error and leaves the transaction and the
\* histories as they were.
C1_AllowedTransitions == [][C1_Step]_vars

\* an updateStatus call from PROCESSING to CANCELLED has just been refused
C1_Witness ==
  /\ lastResult.op = "updateStatus"
  /\ lastResult.error = <<"Invalid status transition from ", "PROCESSING", " to ", "CANCELLED">>
  /\ lastResult.id \in DOMAIN transactions
  /\ transactions[lastResult.id].status = "PROCESSING"

\* in this step a caller called retryTransaction(id): it threw at once, or it
\* reset the transaction and suspended
RetryStep(id) ==
  /\ lastResult = NoResult
  /\ \/ lastResult'.op = "retry" /\ lastResult'.id = id /\ calls' = calls
     \/ \E c \in Slots : /\ calls[c].pc = "idle"
                         /\ calls'[c].pc = "reset"
                         /\ calls'[c].id = id

RetriesExhausted == <<"Maximum retry attempts (", "3", ") exceeded">>

OnlyFailed == <<"Only failed transactions can be retried">>

RetryCountBounded ==
  \A id \in DOMAIN transactions' :
    transactions'[id].retryCount <= transactions'[id].maxRetries

C2_OriginalStep ==
  /\ RetryCountBounded
  /\ \A id \in DOMAIN transactions :
       RetryStep(id) /\ transactions[id].retryCount >= transactions[id].maxRetries
         => /\ lastResult'.error = RetriesExhausted
            /\ UNCHANGED <<transactions, statusHistory, calls>>

\* C2 as claimed: retryCount never exceeds maxRetries, and a retry call made
\* when retryCount >= maxRetries throws the retries-exhausted error, changes
\* nothing and starts no processing.
C2_Original == [][C2_OriginalStep]_vars

C2_Step ==
  /\ RetryCountBounded
  /\ \A id \in DOMAIN transactions :
       RetryStep(id) /\ transactions[id].retryCount >= transactions[id].maxRetries
         => /\ lastResult'.error = IF transactions[id].status = "FAILED"
                                     THEN RetriesExhausted ELSE OnlyFailed
            /\ UNCHANGED <<transactions, statusHistory, calls>>

\* C2 as amended: retryCount never exceeds maxRetries, and a retry call made
\* when retryCount >= maxRetries always throws, changes neither retryCount nor
\* status nor history and starts no processing; what it throws is the
\* retries-exhausted error when the status is FAILED and the
\* only-failed-transactions error in any other status.
C2_RetryBound == [][C2_Step]_vars

\* a retry of a FAILED transaction that has used its three retries was refused
C2_Witness ==
  /\ lastResult.op = "retry"
  /\ lastResult.error = RetriesExhausted
  /\ lastResult.id \in DOMAIN transactions
  /\ transactions[lastResult.id].status = "FAILED"
  /\ transactions[lastResult.id].retryCount = 3

\* in this step a caller called the single-step operation op on id
CalledOn(op, id) ==
  /\ lastResult = NoResult
  /\ lastResult'.op = op
  /\ lastResult'.id = id

C3_Step ==
  \A id \in DOMAIN transactions :
    /\ CalledOn("cancel", id) /\ transactions[id].status = "COMPLETED"
         => /\ lastResult'.error =
                 <<"Cannot cancel a completed transaction. Use refund instead.">>
            /\ UNCHANGED <<transactions, statusHistory>>
    /\ CalledOn("refund", id) /\ transactions[id].status # "COMPLETED"
         => /\ lastResult'.error = <<"Only completed transactions can be refunded">>
            /\ UNCHANGED <<transactions, statusHistory>>

\* C3: cancel(id) on a COMPLETED transaction always throws, and refund(id) on
\* a transaction in any status other than COMPLETED always throws; either way
\* the status and the transition history stay as they were.
C3_CancelRefundRefused == [][C3_Step]_vars

\* a cancel of a COMPLETED transaction was refused
C3_Witness ==
  /\ lastResult.op = "cancel"
  /\ lastResult.id \in DOMAIN transactions
  /\ transactions[lastResult.id].status = "COMPLETED"
  /\ lastResult.error = <<"Cannot cancel a completed transaction. Use refund instead.">>

\* cancel(id) went through: CANCELLED, one more record, by "user"
Cancelled(id) ==
  /\ lastResult'.error = NoError
  /\ transactions' = [transactions EXCEPT ![id].status = "CANCELLED"]
  /\ statusHistory' =
       [statusHistory EXCEPT
          ![id] = Append(@, [transactionId |-> id,
                             fromStatus |-> transactions[id].status,
                             toStatus |-> "CANCELLED",
                             reason |-> <<"Cancelled by user">>,
                             triggeredBy |-> "user"])]

\* cancel(id) threw and left the store and the histories alone
CancelRefused ==
  /\ lastResult'.error # NoError
  /\ UNCHANGED <<transactions, statusHistory>>

C4_OriginalStep ==
  \A id \in Ids :
    CalledOn("cancel", id) =>
      IF id \notin DOMAIN transactions THEN CancelRefused
      ELSE IF transactions[id].status \in {"COMPLETED", "CANCELLED"} THEN CancelRefused
      ELSE Cancelled(id)

\* C4 as claimed: cancel(id) throws only for an unknown, a COMPLETED or a
\* CANCELLED transaction; from PENDING, VALIDATING, PROCESSING, FAILED and
\* REFUNDED it moves the transaction to CANCELLED and records the transition
\* with actor "user".
C4_Original == [][C4_OriginalStep]_vars

C4_Step ==
  \A id \in Ids :
    CalledOn("cancel", id) =>
      IF id \notin DOMAIN transactions
        THEN CancelRefused /\ lastResult'.error = NotFound(id)
      ELSE IF transactions[id].status = "COMPLETED"
        THEN /\ CancelRefused
             /\ lastResult'.error =
                  <<"Cannot cancel a completed transaction. Use refund instead.">>
      ELSE IF transactions[id].status = "CANCELLED"
        THEN CancelRefused /\ lastResult'.error = <<"Transaction is already cancelled">>
      ELSE IF transactions[id].status \in {"PROCESSING", "FAILED", "REFUNDED"}
        THEN /\ CancelRefused
             /\ lastResult'.error = <<"Invalid status transition from ",
                                      transactions[id].status, " to ", "CANCELLED">>
      ELSE Cancelled(id)

\* C4 as amended: cancel(id) throws when the transaction is unknown, COMPLETED
\* or already CANCELLED, and also when it is PROCESSING, FAILED or REFUNDED
\* (the invalid-transition error of updateStatus, nothing changed); only from
\* PENDING and VALIDATING does it move the transaction to CANCELLED and record
\* the transition with actor "user".
C4_CancelOutcome == [][C4_Step]_vars

\* a cancel of a PROCESSING transaction was refused by the transition table
C4_Witness ==
  /\ lastResult.op = "cancel"
  /\ lastResult.id \in DOMAIN transactions
  /\ transactions[lastResult.id].status = "PROCESSING"
  /\ lastResult.error =
       <<"Invalid status transition from ", "PROCESSING", " to ", "CANCELLED">>

\* the (fromStatus, toStatus) pairs of the records after the first n of history h
Trail(h, n) == [i \in 1..(Len(h) - n) |-> <<h[n + i].fromStatus, h[n + i].toStatus>>]

\* what one processTransaction call records when it runs to its end
ProcessTrails ==
  { << <<"PENDING", "VALIDATING">>, <<"VALIDATING", "FAILED">> >>,
    << <<"PENDING", "VALIDATING">>, <<"VALIDATING", "PROCESSING">>,
       <<"PROCESSING", "COMPLETED">> >>,
    << <<"PENDING", "VALIDATING">>, <<"VALIDATING", "PROCESSING">>,
       <<"PROCESSING", "FAILED">> >> }

\* in this step the call in slot c settled
Settled(c) == calls[c].pc # "idle" /\ calls'[c].pc = "idle"

C5_Step ==
  /\ \A id \in DOMAIN transactions :
       RetryStep(id) =>
         IF transactions[id].status # "FAILED"
           THEN /\ lastResult'.error # NoError
                /\ UNCHANGED <<transactions, statusHistory, calls>>
         ELSE transactions[id].retryCount < transactions[id].maxRetries
           => /\ transactions' =
                   [transactions EXCEPT ![id].retryCount = @ + 1,
                                        ![id].errorCode = Undefined,
                                        ![id].errorMessage = <<>>,
                                        ![id].status = "PENDING"]
              /\ statusHistory' =
                   [statusHistory EXCEPT
                      ![id] = Append(@, [transactionId |-> id,
                                         fromStatus |-> "FAILED",
                                         toStatus |-> "PENDING",
                                         reason |-> <<"Retry initiated">>,
                                         triggeredBy |-> "retry-system"])]
              /\ lastResult' = NoResult
  /\ \A c \in Slots :
       calls[c].op = "retry" /\ Settled(c)
         => /\ lastResult'.error = NoError
            /\ transactions'[calls[c].id].status \in {"COMPLETED", "FAILED"}
            /\ \E trail \in ProcessTrails :
                 Trail(statusHistory'[calls[c].id], calls[c].h0)
                   = << <<"FAILED", "PENDING">> >> \o trail

\* C5: retry(id) throws and changes nothing unless the status is FAILED; on a
\* FAILED transaction with retryCount < maxRetries it adds one to retryCount,
\* clears errorCode and errorMessage, records FAILED->PENDING by
\* "retry-system" and then runs processTransaction(id); a retry call that no
\* other call on the transaction overlaps returns, with the transaction
\* COMPLETED or FAILED.
C5_Retry ==
  /\ [][C5_Step]_vars
  /\ \A c \in Slots : (calls[c].op = "retry") ~> (calls[c].pc = "idle")

\* a retry call has returned: one retry counted, the transaction COMPLETED
C5_Witness ==
  /\ lastResult.op = "retry"
  /\ lastResult.error = NoError
  /\ transactions[lastResult.id].retryCount = 1
  /\ transactions[lastResult.id].status = "COMPLETED"

\* in this step a caller called processTransaction(id) and the call suspended
ProcessStarted(c, id) ==
  /\ lastResult = NoResult
  /\ calls[c].pc = "idle"
  /\ calls'[c].op = "process"
  /\ calls'[c].id = id

C6_Step ==
  \A c \in Slots :
    /\ \A id \in DOMAIN transactions :
         ProcessStarted(c, id) /\ transactions[id].status = "PENDING"
           => /\ Trail(statusHistory'[id], Len(statusHistory[id]))
                   = << <<"PENDING", "VALIDATING">> >>
              /\ calls'[c].h0 = Len(statusHistory[id])
    /\ calls[c].op = "process" /\ Settled(c)
         => /\ lastResult'.error = NoError
            /\ Trail(statusHistory'[calls[c].id], calls[c].h0) \in ProcessTrails
            /\ transactions'[calls[c].id].status \in {"COMPLETED", "FAILED"}
            /\ transactions'[calls[c].id].status = "COMPLETED"
                 => transactions'[calls[c].id].completedAt

\* C6: a processTransaction(id) call on a PENDING transaction that no other
\* call on the transaction overlaps records PENDING->VALIDATING, then either
\* VALIDATING->FAILED or VALIDATING->PROCESSING followed by
\* PROCESSING->COMPLETED or PROCESSING->FAILED, and nothing else; the call
\* returns in the end, with the transaction COMPLETED and completedAt set, or
\* FAILED.
C6_Process ==
  /\ [][C6_Step]_vars
  /\ \A c \in Slots : (calls[c].op = "process") ~> (calls[c].pc = "idle")

\* a process call has returned with the transaction COMPLETED and stamped
C6_Witness ==
  /\ lastResult.op = "process"
  /\ lastResult.error = NoError
  /\ transactions[lastResult.id].status = "COMPLETED"
  /\ transactions[lastResult.id].completedAt
  /\ Trail(statusHistory[lastResult.id], 0) \in ProcessTrails

\* the statuses the records after the first n of history h moved to
Entered(h, n) == {h[i].toStatus : i \in (n + 1)..Len(h)}

C7_Step ==
  \A c \in Slots :
    LET id == calls[c].id
    IN /\ ( /\ calls[c].pc = "validating"
            /\ calls'[c] # calls[c]
            /\ ~evaluateTransaction(rules, config, transactions[id]).allowed )
         => /\ calls'[c].pc = "denied"
            /\ transactions'[id].status = "FAILED"
            /\ statusHistory'[id] =
                 Append(statusHistory[id],
                        [transactionId |-> id,
                         fromStatus |-> "VALIDATING",
                         toStatus |-> "FAILED",
                         reason |-> evaluateTransaction(rules, config,
                                                        transactions[id]).denyReason,
                         triggeredBy |-> "rules-engine"])
       /\ calls[c].pc = "denied" /\ Settled(c)
         => /\ lastResult'.error = NoError
            /\ transactions'[id].errorCode = "E3001"
            /\ transactions'[id].errorMessage = calls[c].denyReason
            /\ Entered(statusHistory'[id], calls[c].h0) \cap {"PROCESSING", "COMPLETED"} = {}

\* C7: when the rules deny the transaction of a processTransaction call, the
\* call records VALIDATING->FAILED by "rules-engine", sets errorCode E3001 and
\* errorMessage to the deny reason, and the transaction enters neither
\* PROCESSING nor COMPLETED while the call runs.
C7_DeniedFails == [][C7_Step]_vars

\* a property of the request is missing: absent, or the empty string
Missing(request, property) ==
  property \notin DOMAIN request \/ request[property] = ""

\* the currencies of CreateRequests in upper case
UpperCased(currency) == IF currency \in {"usd", "USD"} THEN "USD" ELSE "JPY"

C8_Step ==
  lastResult = NoResult /\ lastResult'.op = "create" =>
    LET request == lastResult'.req
        id == lastResult'.id
    IN IF "amount" \notin DOMAIN request \/ request.amount <= 0
         THEN /\ lastResult'.error = <<"Amount must be greater than 0">>
              /\ UNCHANGED <<transactions, statusHistory>>
       ELSE IF Missing(request, "currency")
         THEN /\ lastResult'.error = <<"Currency is required">>
              /\ UNCHANGED <<transactions, statusHistory>>
       ELSE IF Missing(request, "sourceAccount")
         THEN /\ lastResult'.error = <<"Source account is required">>
              /\ UNCHANGED <<transactions, statusHistory>>
       ELSE /\ lastResult'.error = NoError
            /\ id \notin DOMAIN transactions
            /\ DOMAIN transactions' = DOMAIN transactions \cup {id}
            /\ DOMAIN statusHistory' = DOMAIN transactions'
            /\ \A other \in DOMAIN transactions :
                 /\ transactions'[other] = transactions[other]
                 /\ statusHistory'[other] = statusHistory[other]
            /\ transactions'[id].id = id
            /\ transactions'[id].status = "PENDING"
            /\ transactions'[id].retryCount = 0
            /\ transactions'[id].maxRetries = 3
            /\ transactions'[id].priority =
                 IF "priority" \in DOMAIN request THEN request.priority ELSE "NORMAL"
            /\ transactions'[id].currency = UpperCased(request.currency)
            /\ transactions'[id].amount = request.amount
            /\ transactions'[id].sourceAccount = request.sourceAccount
            /\ statusHistory'[id] = <<>>

\* C8: createTransaction(request) with amount missing or <= 0, currency
\* missing or sourceAccount missing throws the validation error of the first
\* failing check and leaves the store and the histories unchanged; otherwise
\* it stores exactly one new transaction under a fresh id, with status
\* PENDING, retryCount 0, maxRetries 3, the given priority or NORMAL, the
\* currency in upper case, and an empty transition history.
C8_Create == [][C8_Step]_vars

\* a request with a lower-case currency and no priority has been stored
C8_Witness ==
  /\ lastResult.op = "create"
  /\ lastResult.error = NoError
  /\ lastResult.req.currency = "usd"
  /\ "priority" \notin DOMAIN lastResult.req
  /\ transactions[lastResult.id].currency = "USD"
  /\ transactions[lastResult.id].priority = "NORMAL"
  /\ statusHistory[lastResult.id] = <<>>

\* the history of id starts at PENDING, each record starts where the one
\* before ended, and the last one ends at the current status
Chained(id) ==
  LET history == statusHistory[id]
  IN /\ history = <<>> => transactions[id].status = "PENDING"
     /\ history # <<>> =>
          /\ history[1].fromStatus = "PENDING"
          /\ history[Len(history)].toStatus = transactions[id].status
     /\ \A i \in 2..Len(history) : history[i].fromStatus = history[i - 1].toStatus

C9_Step ==
  /\ \A id \in DOMAIN transactions' \ DOMAIN transactions : statusHistory'[id] = <<>>
  /\ \A id \in DOMAIN transactions :
       IF transactions'[id].status # transactions[id].status
         THEN /\ Len(statusHistory'[id]) = Len(statusHistory[id]) + 1
              /\ SubSeq(statusHistory'[id], 1, Len(statusHistory[id])) = statusHistory[id]
              /\ lastResult'.error = NoError
         ELSE statusHistory'[id] = statusHistory[id]
  /\ lastResult'.error # NoError => statusHistory' = statusHistory

\* C9: the transition history of a transaction is append-only and chained: it
\* is empty after createTransaction, a status change appends exactly one record
\* and a refused attempt none, the first record starts at PENDING, each record
\* starts at the status the previous one ended at, and the last record ends
\* at the current status of the transaction.
C9_History ==
  /\ [](\A id \in DOMAIN transactions : Chained(id))
  /\ [][C9_Step]_vars

\* a call was refused on a transaction that has been retried: its history of
\* four records or more is still chained
C9_Witness ==
  /\ lastResult.error # NoError
  /\ lastResult.id \in DOMAIN transactions
  /\ Len(statusHistory[lastResult.id]) >= 4
  /\ \E i \in 1..Len(statusHistory[lastResult.id]) :
       statusHistory[lastResult.id][i].triggeredBy = "retry-system"
  /\ Chained(lastResult.id)

\* the deny reason names the rule
Names(denyReason, ruleName) == \E i \in 1..Len(denyReason) : denyReason[i] = ruleName

\* C10: with the default rules and stopOnFirstDeny = true, a transaction of an
\* amount below 0.01 is denied whatever its other fields are, and for a USD
\* transaction: an amount from 0.01 to 10000 is allowed and not flagged, an
\* amount above 10000 and up to 100000 is allowed and flagged, and an amount
\* above 100000 is denied with a deny reason that names the rule
\* 'Very High Amount Block' (amounts are in thousandths).
C10_DefaultVerdict ==
  evalInput # NoRequest =>
    /\ evalInput.amount < 10 => ~evalOutput.allowed
    /\ evalInput.currency = "USD" =>
         /\ evalInput.amount >= 10 /\ evalInput.amount <= 10000000
              => evalOutput.allowed /\ ~evalOutput.flagged
         /\ evalInput.amount > 10000000 /\ evalInput.amount <= 100000000
              => evalOutput.allowed /\ evalOutput.flagged
         /\ evalInput.amount > 100000000
              => /\ ~evalOutput.allowed
                 /\ Names(evalOutput.denyReason, "Very High Amount Block")

\* a USD transaction of 15000 has been evaluated: allowed and flagged
C10_Witness ==
  /\ evalInput # NoRequest
  /\ evalInput.amount = 15000000
  /\ evalInput.currency = "USD"
  /\ evalOutput.allowed
  /\ evalOutput.flagged

\* C11: with the default rules, evaluateTransaction returns allowed = true
\* only for a transaction whose currency is USD, EUR or GBP.
C11_SupportedCurrencies ==
  evalInput # NoRequest /\ evalOutput.allowed
    => evalInput.currency \in {"USD", "EUR", "GBP"}

\* rule i of the map is evaluated before rule j: lower priority number first,
\* ties in insertion order
EvaluatedBefore(i, j) ==
  \/ rules[i].priority < rules[j].priority
  \/ rules[i].priority = rules[j].priority /\ i < j

\* the result is that of a DENY rule that triggered
DenyTriggered(result) == ~result.passed /\ result.action = "DENY"

\* the rule set is the default one, whatever ids it was given
DefaultsInPlace == \E n \in 0..ruleUuids : rules = initializeDefaultRules(n)

\* C12: the results of evaluateTransaction are those of enabled rules, in
\* ascending priority order with ties in insertion order; an enabled rule
\* without a result comes after the last result, and then stopOnFirstDeny is
\* true and the last result is a DENY rule that triggered; with
\* stopOnFirstDeny = true no result before the last is a triggered DENY; for
\* amount 150000 in USD under the defaults the only result is that of
\* 'Very High Amount Block'.
C12_EvaluationOrder ==
  evalInput # NoRequest =>
    LET results == evalOutput.results
        at == [k \in 1..Len(results) |-> RuleIndex(rules, results[k].ruleId)]
    IN /\ \A k \in 1..Len(results) : at[k] # 0 /\ rules[at[k]].enabled
       /\ \A k \in 1..(Len(results) - 1) : EvaluatedBefore(at[k], at[k + 1])
       /\ \A i \in 1..Len(rules) :
            rules[i].enabled /\ (\A k \in 1..Len(results) : at[k] # i)
              => /\ results # <<>>
                 /\ EvaluatedBefore(at[Len(results)], i)
                 /\ config.stopOnFirstDeny
                 /\ DenyTriggered(results[Len(results)])
       /\ config.stopOnFirstDeny
            => \A k \in 1..(Len(results) - 1) : ~DenyTriggered(results[k])
       /\ ( /\ DefaultsInPlace
            /\ config.stopOnFirstDeny
            /\ evalInput.amount = 150000000
            /\ evalInput.currency = "USD" )
            => /\ Len(results) = 1
               /\ results[1].ruleName = "Very High Amount Block"

\* 150000 USD has been evaluated under the defaults: one result, three
\* enabled rules not evaluated
C12_Witness ==
  /\ evalInput # NoRequest
  /\ DefaultsInPlace
  /\ config.stopOnFirstDeny
  /\ evalInput.amount = 150000000
  /\ evalInput.currency = "USD"
  /\ Len(evalOutput.results) = 1
  /\ ~evalOutput.allowed

\* some rule that is present and enabled has this action and a condition the
\* evaluated transaction meets
EnabledRuleMet(action) ==
  \E i \in 1..Len(rules) :
    /\ rules[i].enabled
    /\ rules[i].action = action
    /\ evaluateCondition(rules[i].condition, evalInput)

\* C13: whatever calls of addRule, updateRule, deleteRule, setRuleEnabled,
\* updateConfig and resetToDefaults came before it, an evaluation is decided by
\* the rules present and enabled when it is made: every result is that of
\* such a rule, the verdict is the one the enabled rules alone give, allowed
\* is false exactly when an enabled DENY rule is met, and flagged /
\* requiresApproval are true only when an enabled FLAG / REQUIRE_APPROVAL rule
\* is met.
C13_RulesInForce ==
  evalInput # NoRequest =>
    /\ \A k \in 1..Len(evalOutput.results) :
         /\ RuleIndex(rules, evalOutput.results[k].ruleId) # 0
         /\ rules[RuleIndex(rules, evalOutput.results[k].ruleId)].enabled
    /\ evalOutput =
         evaluateTransaction(SelectSeq(rules, LAMBDA r : r.enabled), config, evalInput)
    /\ evalOutput.allowed <=> ~EnabledRuleMet("DENY")
    /\ evalOutput.flagged => EnabledRuleMet("FLAG")
    /\ evalOutput.requiresApproval => EnabledRuleMet("REQUIRE_APPROVAL")
    /\ ~config.stopOnFirstDeny =>
         /\ EnabledRuleMet("FLAG") => evalOutput.flagged
         /\ EnabledRuleMet("REQUIRE_APPROVAL") => evalOutput.requiresApproval

\* 'Very High Amount Block' has been disabled and 150000 USD evaluated:
\* allowed, and flagged by the rule evaluated after it
C13_Witness ==
  /\ evalInput # NoRequest
  /\ evalInput.amount = 150000000
  /\ evalInput.currency = "USD"
  /\ \E i \in 1..Len(rules) :
       rules[i].name = "Very High Amount Block" /\ ~rules[i].enabled
  /\ evalOutput.allowed
  /\ evalOutput.flagged

\* a request that fails the validation of create: no positive amount, no
\* currency or no source account
FailsValidation(request) ==
  \/ "amount" \notin DOMAIN request
  \/ request.amount <= 0
  \/ "currency" \notin DOMAIN request
  \/ request.currency = ""
  \/ "sourceAccount" \notin DOMAIN request
  \/ request.sourceAccount = ""

\* the strings that give num / den as a percentage with one decimal: the
\* tenths nearest to 1000 * num / den, followed by the sign; none when den = 0
Percentage(num, den) ==
  { <<ToString(t \div 10), ".", ToString(t % 10), "%">> :
      t \in { u \in 0..1000 : /\ 2 * den * u - 2000 * num <= den
                               /\ 2000 * num - 2 * den * u < den } }

\* what batchCreate returns for N requests of which K fail validation, and
\* what it has stored; successRate is left to the caller
BatchCreateResult(before, after) ==
  LET N == Len(after.input)
      K == Cardinality({k \in 1..N : FailsValidation(after.input[k])})
  IN /\ after.error = NoError
     /\ Len(after.done) = N - K
     /\ Len(after.failed) = K
     /\ \A k \in 1..N :
          FailsValidation(after.input[k]) =>
            \E e \in 1..K :
              /\ after.failed[e].index = k - 1
              /\ after.failed[e].request = after.input[k]
              /\ after.failed[e].error = createError(after.input[k])
     /\ Cardinality(DOMAIN transactions') = before.created + N - K
     /\ {after.done[k] : k \in 1..(N - K)} = DOMAIN transactions' \ (1..before.created)
     /\ after.summary.total = N
     /\ after.summary.success = N - K
     /\ after.summary.failed = K

\* a batchCreate call returns
BatchCreateReturns ==
  batch.op = "batchCreate" /\ batch.pc = "running" /\ batch'.pc = "done"

C14_Step ==
  BatchCreateReturns =>
    /\ BatchCreateResult(batch, batch')
    /\ batch'.summary.successRate
         \in Percentage(batch'.summary.success, Len(batch'.input))

\* C14: a batchCreate call with N requests within the limit, K of them
\* failing validation, returns N-K transactions in successful and K entries
\* in failed, each with the index, the request and the error message of a
\* failing request, has created exactly N-K transactions, and reports total N,
\* success N-K, failed K and successRate (N-K)/N as a percentage with one
\* decimal.
C14_BatchCreate == [][C14_Step]_vars

\* the same for the calls with at least one request
C14_NonEmptyStep ==
  BatchCreateReturns /\ Len(batch.input) >= 1 => C14_Step

C14_NonEmpty == [][C14_NonEmptyStep]_vars

\* and for the empty list: everything but the rate, which is "NaN%"
C14_EmptyStep ==
  BatchCreateReturns /\ Len(batch.input) = 0 =>
    /\ BatchCreateResult(batch, batch')
    /\ batch'.summary.successRate = <<"NaN", "%">>

C14_Empty == [][C14_EmptyStep]_vars

\* batchCreate has returned for three requests of which one failed validation
C14_Witness ==
  /\ batch.op = "batchCreate"
  /\ batch.pc = "done"
  /\ Len(batch.input) = 3
  /\ Len(batch.failed) = 1
  /\ batch.summary.successRate = <<"66", ".", "7", "%">>

\* the three batch operations over transaction ids
OverIds == {"batchProcess", "batchCancel", "batchRetry"}

\* the entries of s at the positions in P, in order
AtPositions(s, P) ==
  LET Rank(k) == Cardinality({j \in P : j < k}) + 1
  IN [r \in 1..Cardinality(P) |-> s[CHOOSE k \in P : Rank(k) = r]]

\* every position of the input is in exactly one of the two lists: the ids
\* returned are those at some positions, in input order, and the ids of the
\* failed list are those at the other positions
EachInOneList(b) ==
  \E P \in SUBSET (1..Len(b.input)) :
    /\ b.done = AtPositions(b.input, P)
    /\ [e \in 1..Len(b.failed) |-> b.failed[e].transactionId]
         = AtPositions(b.input, (1..Len(b.input)) \ P)

C15_Step ==
  /\ batch.op \in OverIds /\ batch.pc = "running" /\ lastResult # NoResult
       /\ lastResult' = NoResult =>
       /\ lastResult.id = batch.input[batch.i]
       /\ batch'.pc = "running"
       /\ batch'.i = batch.i + 1
       /\ IF lastResult.error # NoError
            THEN /\ batch'.failed = Append(batch.failed,
                                           [transactionId |-> lastResult.id,
                                            error |-> lastResult.error])
                 /\ batch'.done = batch.done
            ELSE /\ batch'.done = Append(batch.done, lastResult.id)
                 /\ batch'.failed = batch.failed
  /\ batch.op \in OverIds /\ batch.pc = "running" /\ batch'.pc = "done" =>
       /\ batch.i = Len(batch.input) + 1
       /\ EachInOneList(batch')
       /\ \A e \in 1..Len(batch'.failed) : batch'.failed[e].error # NoError

SizeGiven(result) == CHOOSE size \in BatchSizes : ToString(size) = result.arg

C16_Step ==
  /\ lastResult = NoResult /\ lastResult'.op = "setMaxBatchSize" =>
       /\ lastResult'.error = NoError
            <=> (1 <= SizeGiven(lastResult') /\ SizeGiven(lastResult') <= 1000)
       /\ maxBatchSize' = IF lastResult'.error = NoError
                            THEN SizeGiven(lastResult') ELSE maxBatchSize
  /\ maxBatchSize' # maxBatchSize => lastResult'.op = "setMaxBatchSize"
  /\ /\ batchCalls' = batchCalls + 1
     /\ batch'.op \in {"batchCreate", "batchProcess"}
     /\ Len(batch'.input) > maxBatchSize
     => /\ batch'.pc = "done"
        /\ batch'.error # NoError
        /\ batch'.done = <<>>
        /\ batch'.failed = <<>>
        /\ UNCHANGED <<transactions, statusHistory, calls, lastResult, triggered,
                       deliveries, webhookLogs>>

\* C16: the limit is 100 until setMaxBatchSize changes it; setMaxBatchSize(size)
\* goes through exactly when 1 <= size <= 1000 and then sets the limit to
\* size, and otherwise throws and leaves the limit as it was; a batchCreate or
\* batchProcess call with more items than the limit throws at once: no item
\* is attempted, no transaction is created or transitioned and no event is
\* triggered.
C16_BatchLimit == maxBatchSize = 100 /\ [][C16_Step]_vars

\* batchProcess has been refused for its size while transactions and a
\* subscriber exist
C16_Witness ==
  /\ batch.op = "batchProcess"
  /\ batch.pc = "done"
  /\ batch.error = <<"Batch size exceeds maximum of ", "1">>
  /\ maxBatchSize = 1
  /\ transactions # <<>>
  /\ webhooks # <<>>

\* the attempts settled so far for triggerEvent call k and webhook id
Chain(k, id) == {p \in posts : p.trigger = k /\ p.webhookId = id}

\* the attempt of that chain that waits for its response or for its timer
Pending(k, id) == {d \in deliveries : d.trigger = k /\ d.webhook.id = id}

\* the chains: a triggerEvent call and a webhook it selected, as it was then
Chains ==
  UNION { {<<k, w>> : w \in triggered[k].selected} : k \in 1..Len(triggered) }

\* every attempt of the chain settled so far has failed
AllFailed(k, id) == \A p \in Chain(k, id) : p.outcome = "failed"

\* the failed attempts of a chain are numbered from 1 and each has its log
\* with success = false
FailuresLogged(k, w) ==
  /\ {p.attempt : p \in Chain(k, w.id)} = 1..Cardinality(Chain(k, w.id))
  /\ \A p \in Chain(k, w.id) :
       \E l \in webhookLogs :
         /\ l.webhookId = w.id
         /\ l.event = triggered[k].event
         /\ l.payload = triggered[k].payload
         /\ l.attempts = p.attempt
         /\ ~l.success

\* the attempts made for a chain, settled or waiting for the response, are at
\* most limit, and no timer is set for an attempt beyond limit
AttemptsWithin(k, w, limit) ==
  /\ Cardinality(Pending(k, w.id)) <= 1
  /\ Cardinality(Chain(k, w.id))
       + Cardinality({d \in Pending(k, w.id) : d.stage = "posted"}) <= limit
  /\ \A d \in Pending(k, w.id) : d.attempt <= limit

\* a chain has come to its end: an attempt was delivered, or limit attempts
\* have failed
Ended(k, w, limit) ==
  \/ ~AllFailed(k, w.id)
  \/ Cardinality(Chain(k, w.id)) = limit

\* the attempts a webhook gets at least: the first one does not look at maxRetries
AtLeastOne(maxRetries) == IF maxRetries < 1 THEN 1 ELSE maxRetries

C17_OriginalBound ==
  \A c \in Chains :
    AllFailed(c[1], c[2].id) =>
      FailuresLogged(c[1], c[2]) /\ AttemptsWithin(c[1], c[2], c[2].maxRetries)

\* C17 as stated: for a triggered event and a webhook whose deliveries all
\* fail, the attempts are numbered 1, 2, ..., each is logged with
\* success = false, their number never exceeds the maxRetries of the webhook
\* and, the timers being fair, eventually equals it.
C17_Original ==
  /\ []C17_OriginalBound
  /\ <>[](\A c \in Chains : Ended(c[1], c[2], c[2].maxRetries))

C17_Bound ==
  \A c \in Chains :
    AllFailed(c[1], c[2].id) =>
      FailuresLogged(c[1], c[2])
        /\ AttemptsWithin(c[1], c[2], AtLeastOne(c[2].maxRetries))

\* C17, amended: the same with the larger of 1 and maxRetries in the place of
\* maxRetries, maxRetries being the one the webhook had when the event was
\* triggered: the first attempt is made whatever maxRetries is.
C17_BoundedRetries ==
  /\ []C17_Bound
  /\ <>[](\A c \in Chains : Ended(c[1], c[2], AtLeastOne(c[2].maxRetries)))

\* three attempts for one event and one webhook have failed, and no fourth is
\* under way
C17_Witness ==
  \E c \in Chains :
    /\ c[2].maxRetries = 3
    /\ AllFailed(c[1], c[2].id)
    /\ Cardinality(Chain(c[1], c[2].id)) = 3
    /\ Pending(c[1], c[2].id) = {}

\* the logs of a settled attempt: those with its webhook id, the event and the
\* payload of its triggerEvent call, its number and its outcome
LogsOf(p) ==
  {l \in webhookLogs :
     /\ l.webhookId = p.webhookId
     /\ l.event = triggered[p.trigger].event
     /\ l.payload = triggered[p.trigger].payload
     /\ l.attempts = p.attempt
     /\ l.success = (p.outcome = "delivered")}

\* C18: every delivery attempt that has settled, delivered or failed, first
\* or retry, has exactly one log with its webhook id, event, payload, success
\* flag and attempt number, and each webhook has as many logs as settled
\* attempts.
C18_OneLogPerAttempt ==
  /\ \A p \in posts : Cardinality(LogsOf(p)) = 1
  /\ \A id \in 1..hookUuids :
       Cardinality({l \in webhookLogs : l.webhookId = id})
         = Cardinality({p \in posts : p.webhookId = id})

\* a webhook has the log of a failed first attempt and the log of a delivered
\* second one
C18_Witness ==
  \E l1 \in webhookLogs, l2 \in webhookLogs :
    /\ l1.webhookId = l2.webhookId
    /\ l1.attempts = 1 /\ ~l1.success
    /\ l2.attempts = 2 /\ l2.success
    /\ l1.payload = l2.payload

\* the webhooks that are active and subscribed to event, as they are now
ActiveSubscribers(event) ==
  {webhooks[i] : i \in {j \in DOMAIN webhooks :
                          webhooks[j].isActive /\ event \in webhooks[j].events}}

\* a triggerEvent call is made in the step
Triggers == Len(triggered') = Len(triggered) + 1

C19_Step ==
  Triggers =>
    LET k == Len(triggered')
        event == triggered'[k].event
    IN /\ triggered'[k].selected = ActiveSubscribers(event)
       /\ deliveries \subseteq deliveries'
       /\ \A d \in deliveries' \ deliveries :
            /\ d.trigger = k
            /\ d.webhook \in ActiveSubscribers(event)
            /\ d.event = event
            /\ d.payload = triggered'[k].payload
            /\ d.attempt = 1
            /\ d.stage = "posted"
       /\ \A w \in ActiveSubscribers(event) :
            Cardinality({d \in deliveries' \ deliveries : d.webhook = w}) = 1
       /\ webhookLogs' = webhookLogs

\* every attempt and every log is for a webhook its triggerEvent call selected,
\* and every selected webhook has its first attempt, under way or settled
C19_Selected ==
  /\ \A d \in deliveries : d.webhook \in triggered[d.trigger].selected
  /\ \A p \in posts : \E w \in triggered[p.trigger].selected : w.id = p.webhookId
  /\ \A l \in webhookLogs : \E p \in posts : l \in LogsOf(p)
  /\ \A c \in Chains :
       \/ \E d \in Pending(c[1], c[2].id) : d.attempt = 1 /\ d.stage = "posted"
       \/ \E p \in Chain(c[1], c[2].id) : p.attempt = 1

\* C19: a triggerEvent call posts one first attempt to each webhook that is
\* active and subscribed to the event when the call is made, and to no other;
\* a webhook that was not selected gets no attempt and no log for the call,
\* and each selected webhook has its first attempt whatever becomes of the
\* attempts to the others.
C19_Selection == []C19_Selected /\ [][C19_Step]_vars

\* of two webhooks subscribed to the event one was inactive when it was
\* triggered: only the other was selected, its first attempt has failed, and
\* the inactive one has no log
C19_Witness ==
  /\ Len(triggered) >= 1
  /\ DOMAIN webhooks = {1, 2}
  /\ ~webhooks[1].isActive
  /\ triggered[1].event \in webhooks[1].events
  /\ triggered[1].selected = {webhooks[2]}
  /\ \E p \in posts : p.trigger = 1 /\ p.webhookId = 2 /\ p.outcome = "failed"
  /\ \A l \in webhookLogs : l.webhookId # 1

\* HMAC-SHA256 of text under key, as hex: equal digests for equal keys and
\* texts only
HmacSha256Hex(key, text) == <<"hmac-sha256-hex", key, text>>

\* the envelope a receiver reads from the body of a request
Received(request) ==
  [event |-> request.data[3], timestamp |-> request.data[5], payload |-> request.data[7]]

\* the webhook this attempt is made for has a secret
Signed(d) == "secret" \in DOMAIN d.webhook /\ d.webhook.secret # ""

\* C20: the request of every attempt for a webhook with a secret has a
\* signature header that is the HMAC-SHA256 of the body sent, the serialized
\* envelope {event, timestamp, payload} of that attempt, under the secret, so
\* that the receiver gets the header again from the body and the secret; the
\* request for a webhook without a secret has no signature header.
C20_Signature ==
  \A d \in deliveries :
    d.stage = "posted" =>
      /\ Received(Request(d)) = [event |-> d.event,
                                 timestamp |-> Request(d).headers["X-Webhook-Timestamp"],
                                 payload |-> d.payload]
      /\ IF Signed(d)
           THEN /\ "X-Webhook-Signature" \in DOMAIN Request(d).headers
                /\ Request(d).headers["X-Webhook-Signature"]
                     = HmacSha256Hex(d.webhook.secret, Request(d).data)
           ELSE "X-Webhook-Signature" \notin DOMAIN Request(d).headers

\* a signed second attempt and an unsigned first attempt wait for their
\* responses
C20_Witness ==
  \E d \in deliveries, e \in deliveries :
    /\ d.stage = "posted" /\ Signed(d) /\ d.attempt = 2
    /\ "X-Webhook-Signature" \in DOMAIN Request(d).headers
    /\ e.stage = "posted" /\ ~Signed(e)
    /\ "X-Webhook-Signature" \notin DOMAIN Request(e).headers

\* the transactions a process call is at work on
InProgress ==
  {id \in DOMAIN transactions : transactions[id].status \in {"VALIDATING", "PROCESSING"}}

\* the call for item j of the running batchProcess has ended: its transaction
\* is in the done list and COMPLETED or FAILED, or its error is in the failed
\* list
Handled(j) ==
  \/ /\ \E k \in 1..Len(batch.done) : batch.done[k] = batch.input[j]
     /\ transactions[batch.input[j]].status \in {"COMPLETED", "FAILED"}
  \/ \E k \in 1..Len(batch.failed) : batch.failed[k].transactionId = batch.input[j]

\* a step of a batchProcess call that takes a transaction from PENDING to
\* VALIDATING takes the next id of the input, with no process call in flight
\* and the calls for all ids before it ended, each in the done list or the
\* failed list
C21_Step ==
  \A id \in DOMAIN transactions :
    ( /\ batch.op = "batchProcess"
      /\ transactions[id].status = "PENDING"
      /\ transactions'[id].status = "VALIDATING" )
    => /\ batch.pc = "running"
       /\ batch.i <= Len(batch.input)
       /\ id = batch.input[batch.i]
       /\ \A c \in Slots : calls[c].pc = "idle"
       /\ InProgress = {}
       /\ Len(batch.done) + Len(batch.failed) = batch.i - 1
       /\ \A j \in 1..(batch.i - 1) : Handled(j)

\* no two transactions are VALIDATING or PROCESSING together while a
\* batchProcess call is the one at work
C21_OneAtATime ==
  batch.op = "batchProcess" => Cardinality(InProgress) <= 1

\* C21: within one batchProcess call the transactions are processed one after
\* another in input order: the next id leaves PENDING only when the call for
\* the id before it has returned with the transaction COMPLETED or FAILED or
\* has thrown, and never are two transactions VALIDATING or PROCESSING
\* together.
C21_Sequential == []C21_OneAtATime /\ [][C21_Step]_vars

\* the third id of the input is VALIDATING after the first was processed and
\* the second was not found
C21_Witness ==
  /\ batch.op = "batchProcess"
  /\ batch.pc = "running"
  /\ batch.i = 3
  /\ Len(batch.done) = 1
  /\ Len(batch.failed) = 1
  /\ batch.input[3] \in InProgress
  /\ batch.input[1] # batch.input[3]
  /\ transactions[batch.input[1]].status \in {"COMPLETED", "FAILED"}

\* the event the claim names for a transaction in the done list of the batch call
NamedEvent(id) ==
  CASE batch.op = "batchCreate" -> "transaction.created"
    [] transactions[id].status = "COMPLETED" -> "transaction.completed"
    [] OTHER -> "transaction.failed"

\* C22: the events triggered since a batchProcess or batchCreate call was made
\* are, in order, one for each transaction in its done list, the call that
\* returned it: transaction.created in batchCreate, and in batchProcess
\* transaction.completed if the transaction is COMPLETED and transaction.failed
\* otherwise; the calls that threw (the failed list) triggered no event.
C22_OneEventPerReturn ==
  batch.op \in {"batchProcess", "batchCreate"} =>
    /\ Len(triggered) = batch.announced + Len(batch.done)
    /\ \A k \in 1..Len(batch.done) :
         /\ triggered[batch.announced + k].payload.transaction = batch.done[k]
         /\ triggered[batch.announced + k].event = NamedEvent(batch.done[k])

\* a batchProcess call has returned after a transaction.created event was
\* triggered: one of its transactions came back FAILED, one COMPLETED and
\* one call threw
C22_Witness ==
  /\ batch.op = "batchProcess"
  /\ batch.pc = "done"
  /\ Len(batch.failed) = 1
  /\ Len(batch.done) = 2
  /\ transactions[batch.done[1]].status = "FAILED"
  /\ transactions[batch.done[2]].status = "COMPLETED"
  /\ batch.announced >= 1
  /\ triggered[1].event = "transaction.created"
  /\ triggered[batch.announced + 1].event = "transaction.failed"

\* every createTransaction of the running batchCreate call has settled and its
\* outcome has been taken
CreationsSettled ==
  /\ batch.op = "batchCreate"
  /\ batch.pc = "running"
  /\ batch.i > Len(batch.input)
  /\ lastResult = NoResult

\* a first delivery attempt of an event the batch call triggered has not
\* finished
DeliveryUnderWay ==
  \E d \in deliveries :
    d.trigger > batch.announced /\ d.attempt = 1 /\ d.stage = "posted"

\* C23: batchCreate returns once all its creations have settled, whether or
\* not the delivery attempts of the transaction.created events it triggered
\* have finished.
C23_ReturnsAfterCreations == CreationsSettled => ENABLED BatchReturn

\* what the code does instead: a batchCreate call that has returned has no
\* first attempt of its events under way, and while one is under way the
\* call cannot return
C23_WaitsForFirstAttempts ==
  /\ (batch.op = "batchCreate" /\ batch.pc = "done") => ~DeliveryUnderWay
  /\ (CreationsSettled /\ DeliveryUnderWay) => ~ENABLED BatchReturn

\* the event named after a final status
EventOf(status) ==
  CASE status = "COMPLETED" -> "transaction.completed"
    [] status = "FAILED" -> "transaction.failed"
    [] status = "CANCELLED" -> "transaction.cancelled"
    [] status = "REFUNDED" -> "transaction.refunded"
    [] OTHER -> ""

\* the dispatcher has been asked to deliver the event for the transaction
Asked(event, id) ==
  \E k \in 1..Len(triggered) :
    triggered[k].event = event /\ triggered[k].payload.transaction = id

\* C24: once a process, retry, cancel or refund call has brought a
\* transaction to COMPLETED, FAILED, CANCELLED or REFUNDED and has settled,
\* the webhook dispatcher has been asked to deliver the event of that status
\* for the transaction.
C24_Notified ==
  \A id \in DOMAIN transactions :
    ( /\ transactions[id].status \in {"COMPLETED", "FAILED", "CANCELLED", "REFUNDED"}
      /\ ~Busy(id)
      /\ lastResult = NoResult )
    => Asked(EventOf(transactions[id].status), id)

\* what the code does instead: the lifecycle operations never call the
\* dispatcher, whatever the subscribers
C24_NeverAsked == triggered = <<>> /\ deliveries = {} /\ webhookLogs = {}

\* the transactions that are PENDING
PendingNow == {id \in DOMAIN transactions : transactions[id].status = "PENDING"}

\* the elements of a sequence
Range(s) == {s[k] : k \in 1..Len(s)}

\* the step is a call of processPendingTransactions
PendingCall == batchCalls' = batchCalls + 1 /\ batch'.limit # <<>>

\* a call of processPendingTransactions(limit) hands to batchProcess the first
\* transactions in creation order (the order of the ids) that are PENDING, all
\* of them or limit of them and never more than limit
C25_Step ==
  PendingCall =>
    LET limit == batch'.limit[1]
        input == batch'.input
    IN /\ batch'.op = "batchProcess"
       /\ Len(input) <= limit
       /\ Len(input) = limit \/ Range(input) = PendingNow
       /\ Range(input) \subseteq PendingNow
       /\ \A k \in 1..Len(input), l \in 1..Len(input) : k < l => input[k] < input[l]
       /\ \A id \in PendingNow \ Range(input) : \A k \in 1..Len(input) : input[k] < id

\* the transactions the call has processed or is processing are among the
\* selected ones and no more than limit
C25_OnlySelected ==
  batch.limit # <<>> =>
    /\ (InProgress \cup Range(batch.done)) \subseteq Range(batch.input)
    /\ Cardinality(InProgress \cup Range(batch.done)) <= batch.limit[1]

\* C25: processPendingTransactions(limit) selects the transactions that are
\* PENDING at the call in creation order, takes at most limit of them and hands
\* exactly those to batchProcess; it never processes more than limit
\* transactions nor one that was not PENDING when selected.
C25_ProcessPending == []C25_OnlySelected /\ [][C25_Step]_vars

\* a comes before b in the list of getAllTransactions: created at a later
\* millisecond, or at the same one and earlier
Before(a, b) ==
  \/ createdAt[a] > createdAt[b]
  \/ createdAt[a] = createdAt[b] /\ a < b

\* how many of n elements slice(0, limit) takes
Taken(limit, n) ==
  IF limit >= 0 THEN (IF limit < n THEN limit ELSE n)
  ELSE (IF n + limit > 0 THEN n + limit ELSE 0)

\* what the call does select: of the PENDING transactions, newest first and
\* those of one millisecond in creation order, the first limit ones, and for a
\* negative limit all but the last -limit ones; only these are processed
C25_SelectionStep ==
  PendingCall =>
    LET limit == batch'.limit[1]
        input == batch'.input
    IN /\ batch'.op = "batchProcess"
       /\ Len(input) = Taken(limit, Cardinality(PendingNow))
       /\ Range(input) \subseteq PendingNow
       /\ \A k \in 1..Len(input), l \in 1..Len(input) :
            k < l => Before(input[k], input[l])
       /\ \A id \in PendingNow \ Range(input) :
            \A k \in 1..Len(input) : Before(input[k], id)

C25_Selection ==
  /\ [](batch.limit # <<>> =>
          (InProgress \cup Range(batch.done)) \subseteq Range(batch.input))
  /\ [][C25_SelectionStep]_vars

\* the claim holds for the calls with a limit that is not negative when the
\* PENDING transactions were all created in the same millisecond
C25_SameMillisecondStep ==
  ( /\ PendingCall
    /\ batch'.limit[1] >= 0
    /\ \A a \in PendingNow, b \in PendingNow : createdAt[a] = createdAt[b] )
  => C25_Step

C25_SameMillisecond == [][C25_SameMillisecondStep]_vars

\* the first attempt of triggerEvent call k to the webhook has settled, with
\* this outcome
FirstSettled(k, id, outcome) ==
  \E p \in posts :
    p.trigger = k /\ p.webhookId = id /\ p.attempt = 1 /\ p.outcome = outcome

\* the promise of the sendWebhook call triggerEvent call k made for the
\* webhook: the catch of sendWebhook takes the error of axios.post
sendWebhookPromise(k, id) ==
  IF \E outcome \in Outcomes : FirstSettled(k, id, outcome)
    THEN "fulfilled" ELSE "pending"

\* the promise of triggerEvent call k: Promise.allSettled over the promises
\* of its sendWebhook calls
triggerEventPromise(k) ==
  IF \E w \in triggered[k].selected : sendWebhookPromise(k, w.id) = "pending"
    THEN "pending" ELSE "fulfilled"

\* C26: a triggerEvent call has returned exactly when the first attempt to
\* each selected webhook has settled, delivered or failed; it waits for no
\* retry, scheduled or posted, and it returns normally whatever the outcomes.
C26_FireAndForget ==
  \A k \in 1..Len(triggered) :
    /\ Awaited(k) <=> triggerEventPromise(k) = "pending"
    /\ ~Awaited(k) <=>
         \A w \in triggered[k].selected :
           FirstSettled(k, w.id, "delivered") \/ FirstSettled(k, w.id, "failed")
    /\ triggerEventPromise(k) # "rejected"

\* a triggerEvent call with two selected webhooks has returned: both first
\* attempts failed, a retry is scheduled for one webhook and the retries of
\* the other have all failed
C26_Witness ==
  \E k \in 1..Len(triggered) :
    /\ ~Awaited(k)
    /\ Cardinality(triggered[k].selected) = 2
    /\ \A w \in triggered[k].selected : FirstSettled(k, w.id, "failed")
    /\ \E d \in deliveries : d.trigger = k /\ d.stage = "scheduled"
    /\ \E w \in triggered[k].selected :
         /\ ~\E d \in deliveries : d.trigger = k /\ d.webhook.id = w.id
         /\ ~\E p \in posts : p.trigger = k /\ p.webhookId = w.id /\ p.outcome = "delivered"

\* while the process call in slot c is in flight from the given positions on,
\* a step that changes the status of its transaction is a step of that call,
\* and when the call settles it returns with the transaction COMPLETED or
\* FAILED
Unaborted(c, positions) ==
  ( /\ calls[c].op = "process"
    /\ calls[c].pc \in positions )
  => /\ transactions'[calls[c].id].status # transactions[calls[c].id].status
          => calls'[c] # calls[c]
     /\ calls'[c].pc = "idle"
          => /\ lastResult'.op = "process"
             /\ lastResult'.error = NoError
             /\ transactions'[calls[c].id].status \in {"COMPLETED", "FAILED"}

\* C27: once a process call has moved the transaction to VALIDATING, no
\* cancel, refund, retry or second process call issued before it ends changes
\* the status of the transaction, and the call ends with the transaction
\* COMPLETED or FAILED.
C27_NoAbort ==
  [][\A c \in Slots :
       Unaborted(c, {"validating", "denied", "processing", "delay", "completed", "failed"})]_vars

\* what the code keeps to: while the transaction of a process call is
\* PROCESSING, up to the step that records the outcome, no other call changes
\* its status
C27_WhileProcessing ==
  [][\A c \in Slots :
       ( /\ calls[c].op = "process"
         /\ calls[c].pc \in {"processing", "delay"}
         /\ transactions[calls[c].id].status = "PROCESSING" )
       => /\ transactions'[calls[c].id].status # "PROCESSING" => calls'[c] # calls[c]
          /\ transactions'[calls[c].id].status \in {"PROCESSING", "COMPLETED", "FAILED"}]_vars

\* the webhook of the id as it was when triggerEvent call k selected it
AsTriggered(k, id) == CHOOSE w \in triggered[k].selected : w.id = id

\* every attempt under way or scheduled belongs to a webhook its triggerEvent
\* call selected and carries that webhook as it was then; a posted attempt is
\* sent to the url of then, signed as C20 says with the secret of then; the
\* timer of a scheduled retry can fire
AsWhenTriggered ==
  \A d \in deliveries :
    /\ \E w \in triggered[d.trigger].selected : w.id = d.webhook.id
    /\ d.webhook = AsTriggered(d.trigger, d.webhook.id)
    /\ d.stage = "posted" =>
         /\ Request(d).url = AsTriggered(d.trigger, d.webhook.id).url
         /\ Signed(d) <=> ( /\ "secret" \in DOMAIN AsTriggered(d.trigger, d.webhook.id)
                            /\ AsTriggered(d.trigger, d.webhook.id).secret # "" )
    /\ d.stage = "scheduled" => ENABLED TimerFires(d)

\* a step that changes the store of webhooks (update, deactivation, new
\* subscription, deletion) leaves every attempt as it is; a scheduled retry
\* goes only by being posted, and a posted attempt only by being logged, with
\* a retry scheduled after a failure below the maxRetries of then
C28_Step ==
  /\ webhooks' # webhooks => deliveries' = deliveries /\ webhookLogs' = webhookLogs
  /\ \A d \in deliveries \ deliveries' :
       /\ d.stage = "scheduled" =>
            Posted(d.trigger, d.webhook, d.event, d.payload, d.attempt,
                   Instant(d.trigger, d.attempt)) \in deliveries'
       /\ d.stage = "posted" =>
            /\ \E l \in webhookLogs' \ webhookLogs :
                 l.webhookId = d.webhook.id /\ l.attempts = d.attempt /\ l.event = d.event
            /\ \A l \in webhookLogs' \ webhookLogs :
                 (~l.success /\ d.attempt < AsTriggered(d.trigger, d.webhook.id).maxRetries)
                   => \E r \in deliveries' \ deliveries :
                        /\ r.stage = "scheduled"
                        /\ r.attempt = d.attempt + 1
                        /\ r.webhook = d.webhook

\* C28: a scheduled retry cannot be cancelled: it is attempted and logged
\* also when the webhook is deactivated, updated, subscribed to other events
\* or deleted before its timer fires, and it uses the url, the secret and the
\* maxRetries the webhook had when the event was triggered.
C28_RetryNotCancelled == []AsWhenTriggered /\ [][C28_Step]_vars

\* the third attempt for a webhook is posted, and the second is logged, while
\* the webhook is deleted, or has another url, no secret and maxRetries 1 in
\* the store: the attempt goes to the old url with the old signature
C28_Witness ==
  \E d \in deliveries :
    /\ d.stage = "posted"
    /\ d.attempt = 3
    /\ \/ d.webhook.id \notin DOMAIN webhooks
       \/ /\ d.webhook.id \in DOMAIN webhooks
          /\ webhooks[d.webhook.id].url # d.webhook.url
          /\ webhooks[d.webhook.id].maxRetries = 1
          /\ Request(d).url = d.webhook.url
          /\ "X-Webhook-Signature" \in DOMAIN Request(d).headers
    /\ \E l \in webhookLogs : l.webhookId = d.webhook.id /\ l.attempts = 2

\* the logs of the chain of triggerEvent call k and webhook id
ChainLogs(k, id) ==
  {l \in webhookLogs :
     /\ l.webhookId = id
     /\ l.event = triggered[k].event
     /\ l.payload = triggered[k].payload}

\* C29: for one triggered event and one webhook the attempts are made one
\* after another, each after the one before it has failed: an attempt under
\* way or scheduled follows failed attempts only, after a delivered attempt
\* none is under way or scheduled, and so the chain has at most one log with
\* success = true, which is the log of its last attempt.
C29_RetryAfterFailureOnly ==
  \A c \in Chains :
    LET k == c[1]
        id == c[2].id
    IN /\ {p.attempt : p \in Chain(k, id)} = 1..Cardinality(Chain(k, id))
       /\ Cardinality(Pending(k, id)) <= 1
       /\ \A d \in Pending(k, id) :
            /\ d.attempt = Cardinality(Chain(k, id)) + 1
            /\ AllFailed(k, id)
       /\ \A p \in Chain(k, id) :
            p.outcome = "delivered" =>
              /\ p.attempt = Cardinality(Chain(k, id))
              /\ Pending(k, id) = {}
       /\ Cardinality({l \in ChainLogs(k, id) : l.success}) <= 1
       /\ \A l \in ChainLogs(k, id) :
            l.success => \A m \in ChainLogs(k, id) : m.attempts <= l.attempts

\* a chain has ended with its second attempt delivered after a failure,
\* below the maxRetries of its webhook
C29_Witness ==
  \E c \in Chains :
    /\ Cardinality(Chain(c[1], c[2].id)) = 2
    /\ c[2].maxRetries = 3
    /\ Pending(c[1], c[2].id) = {}
    /\ \E l \in ChainLogs(c[1], c[2].id) : l.success /\ l.attempts = 2
    /\ \E l \in ChainLogs(c[1], c[2].id) : ~l.success /\ l.attempts = 1

\* C30: every transaction in the store, created through POST /api/transactions
\* or through POST /api/batch/transactions, has an amount above 0 and a
\* currency of exactly 3 characters.
C30_StoredValid ==
  \A id \in DOMAIN transactions :
    /\ transactions[id].amount > 0
    /\ length(transactions[id].currency) = 3

\* what the code keeps to: the amount of every stored transaction is above 0
\* and its currency is not empty
C30_AmountPositive ==
  \A id \in DOMAIN transactions :
    /\ transactions[id].amount > 0
    /\ length(transactions[id].currency) > 0

\* a transaction stored from a body that validateTransactionRequest lets
\* through has a currency of 3 characters
C30_IfValidated ==
  [][(lastResult = NoResult /\ lastResult'.op = "create" /\ lastResult'.error = NoError
        /\ validateTransactionRequest(lastResult'.req) = {})
     => length(transactions'[lastResult'.id].currency) = 3]_vars

\* ------------------------------------------------------------------------
\* C31: evaluateCondition is a structural recursion over the condition tree:
\* an AND node is true iff every child is true (true for an empty child
\* list), an OR node is true iff some child is true (false for an empty child
\* list); a leaf with GT/GTE/LT/LTE on a field that is not a number, IN or
\* NOT_IN with a value that is not a list, an unknown operator, or a missing
\* field name evaluates to false.
\* ------------------------------------------------------------------------

\* the operators of the switch
LeafOperators == {"EQ", "NEQ", "GT", "GTE", "LT", "LTE", "IN", "NOT_IN", "MATCHES"}

\* the leaves the claim names
FalseLeaf(leaf, transaction) ==
  \/ NoField(leaf)
  \/ leaf.operator \notin LeafOperators
  \/ /\ leaf.operator \in {"GT", "GTE", "LT", "LTE"}
     /\ FieldValue(transaction, leaf.field).kind # "number"
  \/ /\ leaf.operator \in {"IN", "NOT_IN"}
     /\ ValueOf(leaf).kind # "array"

\* the truth value the claim gives a tree; the other leaves are left to the switch
RECURSIVE Holds(_, _)
Holds(condition, transaction) ==
  IF condition.operator \in {"AND", "OR"} /\ "children" \in DOMAIN condition
    THEN LET child(i) == Holds(condition.children[i], transaction)
         IN IF condition.operator = "AND"
              THEN \A i \in 1..Len(condition.children) : child(i)
              ELSE \E i \in 1..Len(condition.children) : child(i)
  ELSE IF FalseLeaf(condition, transaction) THEN FALSE
  ELSE evaluateCondition(condition, transaction)

\* the rule that carries the condition under test, when it was added
Probes == {i \in 1..Len(rules) : rules[i].name = "Probe"}

\* the evaluation of the probe rule is the first result: a DENY rule passes
\* iff its condition is not met
ProbeMet == ~evalOutput.results[1].passed

C31_ConditionTree ==
  \A i \in Probes :
    evalOutput # NoRequest =>
      /\ evalOutput.results[1].ruleId = rules[i].id
      /\ ProbeMet <=> Holds(rules[i].condition, evalInput)

\* a met AND node whose first child is an empty AND node, evaluated
C31_Witness ==
  \E i \in Probes :
    /\ evalOutput # NoRequest
    /\ rules[i].condition.operator = "AND"
    /\ "children" \in DOMAIN rules[i].condition
    /\ Len(rules[i].condition.children) = 2
    /\ rules[i].condition.children[1] = Composite("AND", <<>>)
    /\ ProbeMet

\* ------------------------------------------------------------------------
\* C32: the maximum batch size bounds every batch operation: batchCancel and
\* batchRetry called with more ids than the configured maximum are rejected
\* as a whole, like batchCreate and batchProcess, without cancelling or
\* retrying any transaction.
\* ------------------------------------------------------------------------

\* a batchCancel or batchRetry call over more ids than the maximum
OverMaximum(b) ==
  /\ b.op \in {"batchCancel", "batchRetry"}
  /\ Len(b.input) > maxBatchSize

C32_Step ==
  /\ batchCalls' = batchCalls + 1 /\ OverMaximum(batch') =>
       /\ batch'.pc = "done"
       /\ batch'.error # NoError
  /\ batch.pc = "running" /\ OverMaximum(batch) =>
       UNCHANGED <<transactions, statusHistory>>

C32_EveryOperationBounded == [][C32_Step]_vars

\* the same for the two operations that have the check
C32_CheckedStep ==
  /\ batchCalls' = batchCalls + 1
  /\ batch'.op \in {"batchCreate", "batchProcess"}
  /\ Len(batch'.input) > maxBatchSize
  => /\ batch'.pc = "done"
     /\ batch'.error # NoError

C32_CreateAndProcessBounded == [][C32_CheckedStep]_vars

\* a batchCancel over more ids than the maximum has cancelled a transaction
C32_CancelledOverMaximum ==
  /\ OverMaximum(batch)
  /\ batch.op = "batchCancel"
  /\ batch.pc = "done"
  /\ batch.error = NoError
  /\ \E id \in DOMAIN transactions : transactions[id].status = "CANCELLED"
  /\ Len(batch.done) = 1

\* ------------------------------------------------------------------------
\* C33: the connectivity test of an existing active webhook, testWebhook(id),
\* causes a test.ping delivery attempt to that webhook, and a WebhookLog entry
\* for it, whatever transaction events the webhook is subscribed to; webhooks
\* other than the tested one receive nothing.
\* ------------------------------------------------------------------------

\* the step is a connectivity test of an existing active webhook
TestOfActive ==
  /\ Len(triggered') = Len(triggered) + 1
  /\ triggered'[Len(triggered')].event = TestPing
  /\ triggered'[Len(triggered')].payload.webhookId \in DOMAIN webhooks
  /\ webhooks[triggered'[Len(triggered')].payload.webhookId].isActive

\* the first attempts that the step makes
Attempted == {d.webhook.id : d \in deliveries' \ deliveries}

C33_Step ==
  TestOfActive => Attempted = {triggered'[Len(triggered')].payload.webhookId}

\* every attempt of a test is logged for its webhook when it settles
C33_LogStep ==
  \A d \in deliveries \ deliveries' :
    d.event = TestPing /\ d.stage = "posted" =>
      \E l \in webhookLogs' \ webhookLogs :
        l.webhookId = d.webhook.id /\ l.event = TestPing

C33_TestPing == [][C33_Step /\ C33_LogStep]_vars

\* the tested webhook is attempted if it is subscribed to test.ping, and an
\* attempt is logged
C33_Subscribers ==
  [][(TestOfActive => Attempted = getActiveWebhooksForEvent(TestPing)) /\ C33_LogStep]_vars

\* an active webhook subscribed to transaction events only was tested: no
\* attempt and no log
C33_NothingSent ==
  /\ Len(triggered) = 1
  /\ triggered[1].event = TestPing
  /\ triggered[1].selected = {}
  /\ \E i \in DOMAIN webhooks :
       /\ i = triggered[1].payload.webhookId
       /\ webhooks[i].isActive
       /\ TestPing \notin webhooks[i].events
  /\ deliveries = {}
  /\ webhookLogs = {}

\* the test of one webhook was sent to another one, which is subscribed
C33_SentToOther ==
  \E l \in webhookLogs :
    /\ l.event = TestPing
    /\ l.webhookId # triggered[1].payload.webhookId

\* ------------------------------------------------------------------------
\* C34: if two process(id) calls for the same PENDING transaction are issued
\* concurrently, exactly one of them performs PENDING->VALIDATING and carries
\* the transaction to COMPLETED or FAILED; the other fails with an
\* invalid-transition error without changing the transaction, and the history
\* contains each transition of the run once.
\* ------------------------------------------------------------------------

\* in this step a process call on id was made and threw at once
ProcessRefused(id) ==
  /\ lastResult = NoResult
  /\ lastResult'.op = "process"
  /\ lastResult'.id = id
  /\ lastResult'.error # NoError
  /\ calls' = calls

\* the transitions of the history from one status to another
Records(id, from, to) ==
  {i \in 1..Len(statusHistory[id]) :
     statusHistory[id][i].fromStatus = from /\ statusHistory[id][i].toStatus = to}

C34_Step ==
  /\ \A id \in DOMAIN transactions :
       \* the second call, made while the first is in flight
       /\ Busy(id) =>
            /\ \A c \in Slots : ~ProcessStarted(c, id)
            /\ ProcessRefused(id) =>
                 /\ lastResult'.error =
                      <<"Invalid status transition from ", transactions[id].status,
                        " to ", "VALIDATING">>
                 /\ UNCHANGED <<transactions, statusHistory>>
       \* the first call, made on the PENDING transaction
       /\ \A c \in Slots :
            ProcessStarted(c, id) =>
              /\ transactions[id].status = "PENDING"
              /\ Trail(statusHistory'[id], Len(statusHistory[id]))
                   = << <<"PENDING", "VALIDATING">> >>
  /\ \A c \in Slots :
       calls[c].op = "process" /\ Settled(c) =>
         /\ lastResult'.error = NoError
         /\ transactions'[calls[c].id].status \in {"COMPLETED", "FAILED"}
         /\ Trail(statusHistory'[calls[c].id], 0) \in ProcessTrails

\* one call at most is in flight on a transaction, and what the history holds
\* is the beginning of one run
C34_OneRun ==
  \A id \in DOMAIN transactions :
    /\ Cardinality({c \in Slots : calls[c].pc # "idle" /\ calls[c].id = id}) <= 1
    /\ \E trail \in ProcessTrails :
         /\ Len(statusHistory[id]) <= Len(trail)
         /\ Trail(statusHistory[id], 0) = SubSeq(trail, 1, Len(statusHistory[id]))

C34_ConcurrentProcess == []C34_OneRun /\ [][C34_Step]_vars

\* a second call was refused while the first call was waiting for the
\* simulated delay
C34_Witness ==
  \E id \in DOMAIN transactions :
    /\ lastResult.op = "process"
    /\ lastResult.id = id
    /\ lastResult.error =
         <<"Invalid status transition from ", "PROCESSING", " to ", "VALIDATING">>
    /\ \E c \in Slots : calls[c].id = id /\ calls[c].pc = "delay"

\* the first call has returned with the transaction COMPLETED after one run
C34_Completed ==
  \E id \in DOMAIN transactions :
    /\ lastResult.op = "process"
    /\ lastResult.id = id
    /\ lastResult.error = NoError
    /\ transactions[id].status = "COMPLETED"
    /\ Len(statusHistory[id]) = 3
    /\ ~Busy(id)

\* ------------------------------------------------------------------------
\* C35: after any sequence of create, process, retry, cancel and refund
\* calls, including calls interleaved at their suspension points, a
\* transaction carries an errorCode only while its status is FAILED, the code
\* is then E3001 (rule violation) or E2005 (processing failed), and a
\* transaction in PENDING, VALIDATING, PROCESSING or COMPLETED has no errorCode
\* or errorMessage.
\* ------------------------------------------------------------------------

C35_ErrorOnlyWhenFailed ==
  \A id \in DOMAIN transactions :
    /\ transactions[id].errorCode # Undefined =>
         /\ transactions[id].status = "FAILED"
         /\ transactions[id].errorCode
              \in {ERROR_CODES.RULE_VIOLATION, ERROR_CODES.PROCESSING_FAILED}
    /\ transactions[id].status \in {"PENDING", "VALIDATING", "PROCESSING", "COMPLETED"} =>
         /\ transactions[id].errorCode = Undefined
         /\ transactions[id].errorMessage = <<>>

\* the code, when there is one, is one of the two
C35_Codes ==
  \A id \in DOMAIN transactions :
    transactions[id].errorCode
      \in {Undefined, ERROR_CODES.RULE_VIOLATION, ERROR_CODES.PROCESSING_FAILED}

\* a transaction is PENDING again with the error code of the failed run
C35_PendingWithCode ==
  \E id \in DOMAIN transactions :
    /\ transactions[id].status = "PENDING"
    /\ transactions[id].errorCode # Undefined
    /\ transactions[id].retryCount = 1

\* ------------------------------------------------------------------------
\* C36: when transactions are driven only by create, process, retry, cancel
\* and refund, retryCount always equals the number of FAILED->PENDING records
\* with actor "retry-system" in the history of the transaction, and the number
\* of PENDING->VALIDATING records is at most retryCount + 1, hence at most
\* maxRetries + 1 processing runs per transaction.
\* ------------------------------------------------------------------------

\* the records of retries in the history
RetryRecords(id) ==
  {i \in Records(id, "FAILED", "PENDING") : statusHistory[id][i].triggeredBy = "retry-system"}

C36_RetryAccounting ==
  \A id \in DOMAIN transactions :
    /\ transactions[id].retryCount = Cardinality(RetryRecords(id))
    /\ Cardinality(Records(id, "PENDING", "VALIDATING")) <= transactions[id].retryCount + 1
    /\ Cardinality(Records(id, "PENDING", "VALIDATING")) <= transactions[id].maxRetries + 1

\* a transaction has used all its retries: maxRetries + 1 processing runs
C36_Witness ==
  \E id \in DOMAIN transactions :
    /\ transactions[id].retryCount = transactions[id].maxRetries
    /\ Cardinality(RetryRecords(id)) = 3
    /\ Cardinality(Records(id, "PENDING", "VALIDATING")) = 4

\* ------------------------------------------------------------------------
\* C37: in batchCreate and batchProcess no item is reported both as a success
\* and as a failure, whatever the outcome of announcing it to the Webhook
\* Dispatcher: if triggerEvent rejects after the item was created or
\* processed, the item is listed in successful/processed only and not in
\* failed.
\* ------------------------------------------------------------------------

\* the items of the input the failed list names: indexes for batchCreate,
\* transaction ids for batchProcess
FailedItems(b) ==
  {IF b.op = "batchCreate" THEN b.failed[j].index ELSE b.failed[j].transactionId :
     j \in 1..Len(b.failed)}

\* the items of the input that came back as transactions
DoneItems(b) ==
  IF b.op = "batchCreate"
    THEN {k \in 0..(Len(b.input) - 1) : createError(b.input[k + 1]) = NoError}
    ELSE {b.done[j] : j \in 1..Len(b.done)}

\* the items of the input can be told apart in the lists: batchCreate reports
\* indexes, batchProcess ids, which may come more than once in its input
Distinct(b) ==
  b.op = "batchCreate" \/ Cardinality(Range(b.input)) = Len(b.input)

\* every item is in one of the two lists; none is in both exactly when the
\* lists have as many entries as the input
C37_NotBoth ==
  batch.op \in {"batchCreate", "batchProcess"} /\ batch.pc = "done" =>
    /\ Distinct(batch) => FailedItems(batch) \cap DoneItems(batch) = {}
    /\ batch.error = NoError =>
         Len(batch.done) + Len(batch.failed) = Len(batch.input)

\* the same while every triggerEvent returns
C37_Step ==
  (\A j \in 1..Len(batch'.failed) : batch'.failed[j].error # StoreError)
    => (C37_NotBoth)'

C37_NotBothWhenAnnounced == [][C37_Step]_vars

\* batchProcess has returned a transaction as processed and as failed
C37_ReportedTwice ==
  /\ batch.op = "batchProcess"
  /\ batch.pc = "done"
  /\ batch.input = <<1>>
  /\ batch.done = <<1>>
  /\ Len(batch.failed) = 1
  /\ batch.failed[1].transactionId = 1

\* ------------------------------------------------------------------------
\* C38: the summary returned by batchProcess and batchRetry always accounts
\* for every input id exactly once: summary.total equals the number of input
\* ids, summary.completed is the number of returned transactions with status
\* COMPLETED, and summary.completed + summary.failed = summary.total.
\* ------------------------------------------------------------------------

\* a batchProcess or batchRetry call returns its result
ProcessOrRetryReturns ==
  /\ batch.op \in {"batchProcess", "batchRetry"}
  /\ batch.pc = "running"
  /\ batch'.pc = "done"

C38_Step ==
  ProcessOrRetryReturns =>
    /\ batch'.summary.total = Len(batch'.input)
    /\ batch'.summary.completed =
         Cardinality({j \in 1..Len(batch'.done) :
                        transactions'[batch'.done[j]].status = "COMPLETED"})
    /\ batch'.summary.completed + batch'.summary.failed = batch'.summary.total

C38_Summary == [][C38_Step]_vars

\* batchProcess has returned a summary with more outcomes than ids
C38_Overcounted ==
  /\ batch.op = "batchProcess"
  /\ batch.pc = "done"
  /\ batch.error = NoError
  /\ batch.summary.completed + batch.summary.failed > batch.summary.total

\* batchRetry has returned a summary for ids of which one was retried to the end
C38_Retried ==
  /\ batch.op = "batchRetry"
  /\ batch.pc = "done"
  /\ Len(batch.done) >= 1
  /\ Len(batch.failed) >= 1
  /\ batch.summary.completed + batch.summary.failed = Len(batch.input)

\* ------------------------------------------------------------------------
\* C39: processPendingTransactions(limit) fails as a whole and processes
\* nothing when the number of selected ids, min(limit, number of PENDING
\* transactions), exceeds the configured maximum batch size.
\* ------------------------------------------------------------------------

\* min(limit, number of PENDING transactions)
Selected(limit) ==
  IF limit < Cardinality(PendingNow) THEN limit ELSE Cardinality(PendingNow)

C39_Step ==
  /\ PendingCall /\ Selected(batch'.limit[1]) > maxBatchSize =>
       /\ Len(batch'.input) = Selected(batch'.limit[1])
       /\ batch'.pc = "done"
       /\ batch'.error = <<"Batch size exceeds maximum of ", ToString(maxBatchSize)>>
       /\ batch'.done = <<>>
       /\ batch'.failed = <<>>
       /\ UNCHANGED <<transactions, statusHistory, calls, triggered>>
  /\ PendingCall /\ Selected(batch'.limit[1]) <= maxBatchSize =>
       /\ batch'.pc = "running"
       /\ batch'.error = NoError
  \* a call that has failed does nothing afterwards
  /\ batch.limit # <<>> /\ batch.error # NoError /\ batchCalls' = batchCalls =>
       batch' = batch

C39_PendingOverMaximum == [][C39_Step]_vars

\* processPendingTransactions(3) has failed on three PENDING transactions
\* under a maximum of 2, and the three are PENDING as before
C39_Witness ==
  /\ batch.limit = <<3>>
  /\ batch.pc = "done"
  /\ batch.error # NoError
  /\ maxBatchSize = 2
  /\ Cardinality(PendingNow) = 3
  /\ \A id \in DOMAIN transactions : Len(statusHistory[id]) = 0

\* ------------------------------------------------------------------------
\* C40: with stopOnFirstDeny = false, evaluateTransaction evaluates every
\* enabled rule and returns one result per enabled rule; allowed is false iff
\* at least one DENY rule's condition is met, denyReason is the message of the
\* last triggered DENY rule in evaluation order, and flagged /
\* requiresApproval are true iff some FLAG / REQUIRE_APPROVAL rule's condition
\* is met, also when a DENY has triggered.
\* ------------------------------------------------------------------------

\* the enabled DENY rules whose condition the evaluated transaction meets
DenyMet ==
  {i \in 1..Len(rules) : /\ rules[i].enabled
                         /\ rules[i].action = "DENY"
                         /\ evaluateCondition(rules[i].condition, evalInput)}

\* the one of them that is evaluated last
LastDenyMet == CHOOSE i \in DenyMet : \A j \in DenyMet \ {i} : EvaluatedBefore(j, i)

C40_EveryRuleEvaluated ==
  evalInput # NoRequest /\ ~config.stopOnFirstDeny =>
    LET results == evalOutput.results
        enabled == {i \in 1..Len(rules) : rules[i].enabled}
    IN /\ Len(results) = Cardinality(enabled)
       /\ \A i \in enabled :
            Cardinality({k \in 1..Len(results) : results[k].ruleId = rules[i].id}) = 1
       /\ \A k \in 1..(Len(results) - 1) :
            EvaluatedBefore(RuleIndex(rules, results[k].ruleId),
                            RuleIndex(rules, results[k + 1].ruleId))
       /\ evalOutput.allowed <=> DenyMet = {}
       /\ evalOutput.denyReason =
            IF DenyMet = {} THEN <<>>
            ELSE <<"Rule triggered: ", rules[LastDenyMet].name, " - ",
                   rules[LastDenyMet].description>>
       /\ evalOutput.flagged <=> EnabledRuleMet("FLAG")
       /\ evalOutput.requiresApproval <=> EnabledRuleMet("REQUIRE_APPROVAL")

\* two DENY rules and a FLAG rule have triggered in one evaluation: the
\* reason is that of the DENY rule evaluated last
C40_Witness ==
  /\ evalInput # NoRequest
  /\ ~config.stopOnFirstDeny
  /\ Cardinality(DenyMet) = 2
  /\ ~evalOutput.allowed
  /\ evalOutput.flagged
  /\ evalOutput.denyReason[2] = "Block EUR"
  /\ Len(evalOutput.results) = 5

====
